---- MODULE Spec2Model ----
(***************************************************************************)
(* repl-toolkit: the action registry (repl_toolkit/actions/registry.py)    *)
(* and the cancellation-aware session loop (repl_toolkit/async_repl.py).   *)
(*                                                                         *)
(* Strings that the code parses (commands, input lines) are sequences of   *)
(* one-character strings, so that strip(), lower(), split() and            *)
(* startswith() are computed rather than assumed.  Action names, key       *)
(* chords and handlers are never parsed and stay atoms.                    *)
(*                                                                         *)
(* Action objects live in a heap: Python passes them by reference, and     *)
(* the registry's name table holds references, not copies.                 *)
(***************************************************************************)
EXTENDS Integers, Sequences, FiniteSets, TLC

\* ------------------------------------------------------------------------
\* Bounds
\* ------------------------------------------------------------------------
\* Action objects the heap may hold (the four built-ins plus user actions).
MaxObjects == 6
\* Registry calls (registrations and dispatches) in one run.
MaxCalls == 2
\* Content turns (calls of _process_input) in one session.
MaxTurns == 2
\* Inputs read from the prompt in one session.
MaxInputs == 2
\* Cancel-chord presses delivered to one turn's listener.
MaxKeys == 1
\* Calls of one turn's cross-context cancel trigger.
MaxTriggers == 1
\* Suspension points one backend operation passes through.
MaxSuspends == 1
\* Attachments added in one session.
MaxImages == 1
\* Runs of the paste handler in one session.
MaxPastes == 2
\* Lines of a headless input stream.
MaxLines == 3

\* ------------------------------------------------------------------------
\* Atoms
\* ------------------------------------------------------------------------
\* Python's None as a handler: the main-loop sentinel.
None == "None"
\* An absent command.  `if action.command` is false for None and for "".
NoCommand == <<>>
\* None as the result of a lookup.
NoAction == [none |-> TRUE]

CmdHelp == <<"/", "h", "e", "l", "p">>
CmdShortcuts == <<"/", "s", "h", "o", "r", "t", "c", "u", "t", "s">>
CmdExit == <<"/", "e", "x", "i", "t">>
CmdQuit == <<"/", "q", "u", "i", "t">>
CmdA == <<"/", "a">>

\* Values a caller passes for the fields of an Action.
NameInputs == {"show_help", "act_a", "act_b"}
CommandInputs == {NoCommand, CmdHelp, CmdA}
KeysInputs == {<<>>, <<"F2">>, <<"F2", "F1">>}
HandlerInputs == {None, "h_raise"}

VARIABLES
    heap,         \* Action objects: object id -> fields
    actions,      \* ActionRegistry.actions: name -> object id
    command_map,  \* ActionRegistry.command_map: command -> action name
    key_map,      \* ActionRegistry.key_map: key chord -> action name
    regLast,      \* the last registry call: its arguments and its outcome
    regCalls,     \* number of registry calls made
    _backend,     \* ActionRegistry._backend: the backend bound to the registry
    pc,           \* where AsyncREPL.run is suspended
    turns,        \* one record per call of _process_input, in order
    ready,        \* the event loop's queue of ready handles (FIFO)
    image_buffer, \* AsyncREPL._image_buffer: ids of the attachments held
    image_counter,\* AsyncREPL._image_counter
    backend,      \* what the backend given to run() supports
    initial_message, \* run()'s initial_message
    session,      \* inputs read and registry dispatches made by run()
    text,         \* a message with image placeholders, as a backend gets it
    images,       \* the images argument that comes with it: id -> ImageData
    parsed,       \* what the last call of an images.py function returned
    image_data,   \* AsyncREPL._image_buffer: the ImageData of each id held
    prompt_buffer,\* what the paste action inserted into the prompt's buffer
    issued,       \* every (id, ImageData) add_image has returned, in order
    clip,         \* the last run of the paste handler: clipboard and outcome
    input_stream, \* run_headless_mode: the lines of the input stream
    consumed,     \* run_headless_mode: how many lines the loop has read
    buffer,       \* run_headless_mode: buffer, the lines of the turn being read
    delivered,    \* the calls of backend.handle_input, in order, with outcomes
    success,      \* run_headless_mode: success
    hpc           \* where run_headless_mode is, and how it ended

regTables == <<heap, actions, command_map, key_map, regLast, regCalls>>
regVars == <<heap, actions, command_map, key_map, regLast, regCalls, _backend>>
imgVars == <<text, images, parsed>>
attachVars == <<image_data, prompt_buffer, issued, clip>>
headlessVars == <<input_stream, consumed, buffer, delivered, success, hpc>>
loopVars == <<pc, turns, ready, image_buffer, image_counter, backend,
              initial_message, session, text, images, parsed,
              image_data, prompt_buffer, issued, clip,
              input_stream, consumed, buffer, delivered, success, hpc>>
vars == <<heap, actions, command_map, key_map, regLast, regCalls, _backend,
          pc, turns, ready, image_buffer, image_counter, backend,
          initial_message, session, text, images, parsed,
          image_data, prompt_buffer, issued, clip,
          input_stream, consumed, buffer, delivered, success, hpc>>

\* ------------------------------------------------------------------------
\* Action (actions/action.py)
\* ------------------------------------------------------------------------
NewAction(name, handler, command, keys) ==
    [name |-> name, handler |-> handler, command |-> command, keys |-> keys,
     enabled |-> TRUE, hidden |-> FALSE]

\* Action.get_keys_list(): the action's chords, in their listed order.
get_keys_list(action) == action.keys

\* setattr(action, k, v) for every keyword given next to an Action object.
\* kwargs.given is the set of keywords present, kwargs.val their values.
ApplyKwargs(action, kwargs) ==
    [f \in DOMAIN action |-> IF f \in kwargs.given THEN kwargs.val[f] ELSE action[f]]

Kwargs(given, name, handler, command, keys) ==
    [given |-> given,
     val |-> [name |-> name, handler |-> handler, command |-> command, keys |-> keys]]

NoKwargs == Kwargs({}, "show_help", None, NoCommand, <<>>)

\* Keyword sets a caller gives next to an Action object: none, or one field.
KwargsInputs ==
    {NoKwargs}
    \cup {Kwargs({"name"}, n, None, NoCommand, <<>>) : n \in NameInputs}
    \cup {Kwargs({"command"}, "show_help", None, c, <<>>) : c \in CommandInputs}
    \cup {Kwargs({"keys"}, "show_help", None, NoCommand, k) : k \in KeysInputs}
    \cup {Kwargs({"handler"}, "show_help", h, NoCommand, <<>>) : h \in HandlerInputs}

\* Action objects a caller constructs.
ActionInputs ==
    {NewAction(n, h, c, k) :
        n \in NameInputs, h \in {"h_ok"}, c \in CommandInputs, k \in KeysInputs}

\* ------------------------------------------------------------------------
\* ActionRegistry
\* ------------------------------------------------------------------------
\* self._backend = None
NoBackend == "None"
\* Values assigned to the registry's backend: two objects with a
\* handle_input method, one object without, and None.
BackendValues == {"backend_1", "backend_2", "not_a_backend", NoBackend}
\* The backend run() is given.
RunBackend == "backend_1"

\* A setter that takes any value.
AnyValue(value) == TRUE

\* isinstance(value, AsyncBackend): AsyncBackend is a runtime-checkable
\* protocol, so the test is the presence of handle_input.
Conforms(value) == value \in {"backend_1", "backend_2"}

\* The name table by value: what get_action returns for every name.
NameTable == [n \in DOMAIN actions |-> heap[actions[n]]]

get_action(name) ==
    IF name \in DOMAIN actions THEN heap[actions[name]] ELSE NoAction

get_action_by_command(command) ==
    IF command \in DOMAIN command_map
    THEN get_action(command_map[command])
    ELSE NoAction

get_action_by_keys(keys) ==
    IF keys \in DOMAIN key_map
    THEN get_action(key_map[keys])
    ELSE NoAction

\* The first failing check of register_action, in the code's order.
RECURSIVE FirstBoundKey(_, _)
FirstBoundKey(keys, i) ==
    IF i > Len(keys) THEN 0
    ELSE IF keys[i] \in DOMAIN key_map THEN i
    ELSE FirstBoundKey(keys, i + 1)

\* The checks of register_action with the command looked up before the name.
CommandBeforeName(action) ==
    IF action.command # NoCommand /\ action.command \in DOMAIN command_map
    THEN "command"
    ELSE IF action.name \in DOMAIN actions THEN "name"
    ELSE IF FirstBoundKey(get_keys_list(action), 1) # 0 THEN "key"
    ELSE "none"

ValidationConflict(action) ==
    IF action.name \in DOMAIN actions THEN "name"
    ELSE IF action.command # NoCommand /\ action.command \in DOMAIN command_map
    THEN "command"
    ELSE IF FirstBoundKey(get_keys_list(action), 1) # 0 THEN "key"
    ELSE "none"

\* The key-chord table after binding every chord of the action, in order.
RECURSIVE BindKeys(_, _, _, _)
BindKeys(km, keys, i, name) ==
    IF i > Len(keys) THEN km
    ELSE BindKeys([k \in DOMAIN km \cup {keys[i]} |->
                      IF k = keys[i] THEN name ELSE km[k]],
                  keys, i + 1, name)

BindCommand(cm, command, name) ==
    IF command # NoCommand
    THEN [c \in DOMAIN cm \cup {command} |-> IF c = command THEN name ELSE cm[c]]
    ELSE cm

BindName(tbl, name, obj) ==
    [n \in DOMAIN tbl \cup {name} |-> IF n = name THEN obj ELSE tbl[n]]

\* register_action(*args, **kwargs).  form is "object" (args[0] is an Action
\* the caller has just constructed), "registered" (args[0] is an Action the
\* registry already holds, e.g. one obtained from get_action) or "fields"
\* (no Action: Action(**kwargs) is constructed from the keywords).
register_action(form, obj, given, kwargs) ==
    LET isRef == form = "registered"
        id == IF isRef THEN obj ELSE Len(heap) + 1
        action == IF form = "fields" THEN given
                  ELSE ApplyKwargs(IF isRef THEN heap[obj] ELSE given, kwargs)
        heapSet == IF isRef THEN [heap EXCEPT ![obj] = action] ELSE heap
        conflict == ValidationConflict(action)
    IN  /\ regCalls < MaxCalls
        /\ regCalls' = regCalls + 1
        /\ UNCHANGED <<_backend, loopVars>>
        /\ IF conflict # "none"
           THEN /\ heap' = heapSet
                /\ UNCHANGED <<actions, command_map, key_map>>
                /\ regLast' = [op |-> "register_action", form |-> form,
                               conflict |-> conflict,
                               action |-> action,
                               key |-> IF conflict = "key"
                                       THEN get_keys_list(action)[
                                              FirstBoundKey(get_keys_list(action), 1)]
                                       ELSE "",
                               result |-> "ActionValidationError"]
           ELSE /\ Len(heap) < MaxObjects \/ isRef
                /\ heap' = IF isRef THEN heapSet ELSE Append(heap, action)
                /\ actions' = BindName(actions, action.name, id)
                /\ command_map' = BindCommand(command_map, action.command, action.name)
                /\ key_map' = BindKeys(key_map, get_keys_list(action), 1, action.name)
                /\ regLast' = [op |-> "register_action", form |-> form,
                               conflict |-> conflict,
                               result |-> "ok"]

RegisterObject ==
    /\ pc = "start"
    /\ \E a \in ActionInputs, kw \in KwargsInputs :
        register_action("object", 0, a, kw)

RegisterRegistered ==
    /\ pc = "start"
    /\ \E o \in 1..Len(heap), kw \in KwargsInputs :
        register_action("registered", o, heap[o], kw)

RegisterFields ==
    /\ pc = "start"
    /\ \E a \in ActionInputs :
        register_action("fields", 0, a, NoKwargs)

\* _register_builtin_actions(): the registry right after construction.
BuiltinActions ==
    << NewAction("show_help", "_show_help", CmdHelp, <<"F1">>),
       NewAction("list_shortcuts", "_list_shortcuts", CmdShortcuts, <<>>),
       NewAction("exit_repl", None, CmdExit, <<>>),
       NewAction("quit_repl", None, CmdQuit, <<>>) >>

InitRegistry ==
    /\ heap = BuiltinActions
    /\ actions = [n \in {BuiltinActions[i].name : i \in 1..4} |->
                    CHOOSE i \in 1..4 : BuiltinActions[i].name = n]
    /\ command_map = [c \in {BuiltinActions[i].command : i \in 1..4} |->
                        BuiltinActions[CHOOSE i \in 1..4 : BuiltinActions[i].command = c].name]
    /\ key_map = [k \in {"F1"} |-> "show_help"]
    /\ regLast = [op |-> "init"]
    /\ regCalls = 0
    /\ _backend = NoBackend

NextRegistry ==
    \/ RegisterObject
    \/ RegisterRegistered
    \/ RegisterFields

\* ------------------------------------------------------------------------
\* str methods used by the code, on sequences of characters
\* ------------------------------------------------------------------------
UpperChars == <<"A", "B", "C", "D", "E", "F", "G", "H", "I", "J", "K", "L", "M",
                "N", "O", "P", "Q", "R", "S", "T", "U", "V", "W", "X", "Y", "Z">>
LowerChars == <<"a", "b", "c", "d", "e", "f", "g", "h", "i", "j", "k", "l", "m",
                "n", "o", "p", "q", "r", "s", "t", "u", "v", "w", "x", "y", "z">>

IsSpace(c) == c \in {" ", "\t", "\n", "\r"}

LowerChar(c) ==
    IF \E i \in 1..26 : UpperChars[i] = c
    THEN LowerChars[CHOOSE i \in 1..26 : UpperChars[i] = c]
    ELSE c

\* str.lower()
Lower(s) == [i \in 1..Len(s) |-> LowerChar(s[i])]

RECURSIVE LStrip(_)
LStrip(s) ==
    IF s # <<>> /\ IsSpace(Head(s)) THEN LStrip(Tail(s)) ELSE s

RECURSIVE RStrip(_)
RStrip(s) ==
    IF s # <<>> /\ IsSpace(s[Len(s)]) THEN RStrip(SubSeq(s, 1, Len(s) - 1)) ELSE s

\* str.strip()
Strip(s) == RStrip(LStrip(s))

\* str.startswith("/")
StartsWithSlash(s) == s # <<>> /\ Head(s) = "/"

\* str.split(): the maximal runs of non-whitespace characters, in order.
RECURSIVE SplitFrom(_, _, _)
SplitFrom(s, cur, acc) ==
    IF s = <<>>
    THEN IF cur = <<>> THEN acc ELSE Append(acc, cur)
    ELSE IF IsSpace(Head(s))
         THEN SplitFrom(Tail(s), <<>>, IF cur = <<>> THEN acc ELSE Append(acc, cur))
         ELSE SplitFrom(Tail(s), Append(cur, Head(s)), acc)

Split(s) == SplitFrom(s, <<>>, <<>>)

\* ------------------------------------------------------------------------
\* Dispatch through the registry
\* ------------------------------------------------------------------------
\* What running a handler does: it returns, or it raises.
HandlerRaises(handler) == handler = "h_raise"

\* ActionContext(registry=self, args=..., backend=..., triggered_by=...)
ActionContext(triggered_by, args, bound) ==
    [triggered_by |-> triggered_by, args |-> args, backend |-> bound]

\* _resolve_handler(action): None for a main-loop action, else the callable.
_resolve_handler(action) == action.handler

\* A dispatcher that runs disabled actions too.
execute_unchecked(action_name, context) ==
    LET action == get_action(action_name)
    IN  IF action = NoAction
        THEN [invoked |-> <<>>, result |-> "ActionError"]
        ELSE IF _resolve_handler(action) = None
        THEN [invoked |-> <<>>, result |-> "ok"]
        ELSE [invoked |-> <<[handler |-> _resolve_handler(action), context |-> context]>>,
              result |-> IF HandlerRaises(_resolve_handler(action))
                         THEN "ActionExecutionError" ELSE "ok"]

\* execute_action(name, context): the handlers invoked, each with the
\* context it was given, and the exception that leaves the call.
execute_action(action_name, context) ==
    LET action == get_action(action_name)
    IN  IF action = NoAction
        THEN [invoked |-> <<>>, result |-> "ActionError"]
        ELSE IF ~action.enabled
        THEN [invoked |-> <<>>, result |-> "ok"]
        ELSE IF _resolve_handler(action) = None
        THEN [invoked |-> <<>>, result |-> "ok"]
        ELSE [invoked |-> <<[handler |-> _resolve_handler(action), context |-> context]>>,
              result |-> IF HandlerRaises(_resolve_handler(action))
                         THEN "ActionExecutionError" ELSE "ok"]

\* if not command.startswith('/'): command = f'/{command}'
EnsureMarker(first) == IF StartsWithSlash(first) THEN first ELSE <<"/">> \o first

\* What handle_command and handle_shortcut print when execute_action
\* raises: ActionError and its subclasses, or anything else.
ReportDispatch(result) == IF result = "ok" THEN <<>> ELSE <<"Error">>

\* A dispatcher that says nothing about an unbound command.
NoReport == <<>>

\* The two lines printed for a command bound to no action.
UnknownCommandReport == <<"Unknown command", "Use /help to see available commands.">>

\* handle_command(command_string): handlers invoked, user-visible messages
\* printed by the registry itself, and the exception that leaves the call.
handle_command(command_string) ==
    LET parts == Split(Strip(command_string))
    IN  IF parts = <<>>
        THEN [invoked |-> <<>>, printed |-> <<>>, result |-> "ok"]
        ELSE
        LET command == EnsureMarker(parts[1])
            args == Tail(parts)
            action == get_action_by_command(command)
        IN  IF action = NoAction
            THEN [invoked |-> <<>>, printed |-> UnknownCommandReport, result |-> "ok"]
            ELSE
            LET ex == execute_action(action.name,
                                     ActionContext("command", args, _backend))
            IN  [invoked |-> ex.invoked,
                 printed |-> ReportDispatch(ex.result),
                 result |-> "ok"]

\* A dispatcher that tells the user about an unbound chord.
handle_shortcut_noisy(key_combo) ==
    LET action == get_action_by_keys(key_combo)
    IN  IF action = NoAction
        THEN [invoked |-> <<>>, printed |-> <<"Unknown shortcut">>, result |-> "ok"]
        ELSE
        LET ex == execute_action(action.name, ActionContext("shortcut", <<>>, _backend))
        IN  [invoked |-> ex.invoked, printed |-> ReportDispatch(ex.result), result |-> "ok"]

\* handle_shortcut(key_combo, event)
handle_shortcut(key_combo) ==
    LET action == get_action_by_keys(key_combo)
    IN  IF action = NoAction
        THEN [invoked |-> <<>>, printed |-> <<>>, result |-> "ok"]
        ELSE
        LET ex == execute_action(action.name, ActionContext("shortcut", <<>>, _backend))
        IN  [invoked |-> ex.invoked, printed |-> ReportDispatch(ex.result), result |-> "ok"]

\* The key binding AsyncREPL._register_shortcut adds for a chord of the
\* registry's key map: execute_action by the bound name, every exception
\* caught and logged.
session_shortcut(key_combo) ==
    LET ex == execute_action(key_map[key_combo], ActionContext("shortcut", <<>>, _backend))
    IN  [invoked |-> ex.invoked, printed |-> <<>>, result |-> "ok"]

\* A listing that shows hidden actions too.
AllEntries == DOMAIN actions

\* get_actions_by_category(): the entries of the name table whose action is
\* not hidden (every action is in exactly one category; the categories
\* are not told apart here).
get_actions_by_category == {n \in DOMAIN actions : ~heap[actions[n]].hidden}

\* _list_shortcuts: one line per entry whose action has a chord.
_list_shortcuts == {n \in get_actions_by_category : heap[actions[n]].keys # <<>>}

\* What the handlers that ran printed: the listing, for _list_shortcuts.
HandlerOutput(invoked) ==
    IF invoked # <<>> /\ invoked[1].handler = "_list_shortcuts"
    THEN _list_shortcuts ELSE {}

\* Names, command strings and chords that callers dispatch.
DispatchNames == {"show_help", "list_shortcuts", "exit_repl", "quit_repl",
                  "act_a", "act_b", "nope"}
LineAxy == <<"/", "a", " ", "x", " ", " ", "y">>
LineAxyBare == <<" ", "a", " ", "x", " ", "y", " ">>
LineNope == <<"/", "n", "o", "p", "e">>
CommandLines == {LineAxy, LineAxyBare, LineNope, CmdHelp, CmdShortcuts, CmdExit,
                 <<"/", "q", "u", "i", "t", " ", "x">>, <<" ">>}
ChordInputs == {"F1", "F2", "F9"}

\* action.enabled = value, on an Action the caller holds.
SetEnabled ==
    /\ pc = "start"
    /\ regCalls < MaxCalls
    /\ \E o \in 1..Len(heap), value \in BOOLEAN :
        /\ heap' = [heap EXCEPT ![o].enabled = value]
        /\ regLast' = [op |-> "set_enabled", obj |-> o]
    /\ regCalls' = regCalls + 1
    /\ UNCHANGED <<actions, command_map, key_map, _backend, loopVars>>

\* action.hidden = value, on an Action the caller holds.
SetHidden ==
    /\ pc = "start"
    /\ regCalls < MaxCalls
    /\ \E o \in 1..Len(heap), value \in BOOLEAN :
        /\ heap' = [heap EXCEPT ![o].hidden = value]
        /\ regLast' = [op |-> "set_hidden", obj |-> o]
    /\ regCalls' = regCalls + 1
    /\ UNCHANGED <<actions, command_map, key_map, _backend, loopVars>>

\* registry.backend = value
SetBackend ==
    /\ pc = "start"
    /\ \E value \in BackendValues :
        IF ~Conforms(value)
        THEN /\ regLast' = [op |-> "set_backend", value |-> value, result |-> "TypeError"]
             /\ UNCHANGED _backend
        ELSE /\ regLast' = [op |-> "set_backend", value |-> value, result |-> "ok"]
             /\ _backend' = value
    /\ UNCHANGED <<heap, actions, command_map, key_map, regCalls, loopVars>>

\* registry.execute_action(name, context), called by application code.
ExecuteAction ==
    /\ pc = "start"
    /\ \E name \in DispatchNames :
        LET context == ActionContext("programmatic", <<>>, _backend)
            res == execute_action(name, context)
        IN  regLast' = [op |-> "execute_action", name |-> name, context |-> context,
                        invoked |-> res.invoked, printed |-> <<>>,
                        result |-> res.result, output |-> HandlerOutput(res.invoked)]
    /\ UNCHANGED <<heap, actions, command_map, key_map, regCalls, _backend, loopVars>>

\* registry.handle_command(command_string)
HandleCommand ==
    /\ pc = "start"
    /\ \E line \in CommandLines :
        LET res == handle_command(line)
        IN  regLast' = [op |-> "handle_command", line |-> line,
                        invoked |-> res.invoked, printed |-> res.printed,
                        result |-> res.result, output |-> HandlerOutput(res.invoked)]
    /\ UNCHANGED <<heap, actions, command_map, key_map, regCalls, _backend, loopVars>>

\* registry.handle_shortcut(key_combo, event)
HandleShortcut ==
    /\ pc = "start"
    /\ \E chord \in ChordInputs :
        LET res == handle_shortcut(chord)
        IN  regLast' = [op |-> "handle_shortcut", chord |-> chord,
                        invoked |-> res.invoked, printed |-> res.printed,
                        result |-> res.result, output |-> HandlerOutput(res.invoked)]
    /\ UNCHANGED <<heap, actions, command_map, key_map, regCalls, _backend, loopVars>>

\* A chord bound by the session's key bindings is pressed at the prompt.
SessionShortcut ==
    /\ pc = "start"
    /\ \E chord \in DOMAIN key_map :
        LET res == session_shortcut(chord)
        IN  regLast' = [op |-> "session_shortcut", chord |-> chord,
                        invoked |-> res.invoked, printed |-> res.printed,
                        result |-> res.result, output |-> HandlerOutput(res.invoked)]
    /\ UNCHANGED <<heap, actions, command_map, key_map, regCalls, _backend, loopVars>>

NextDispatch ==
    \/ RegisterObject
    \/ RegisterRegistered
    \/ RegisterFields
    \/ SetEnabled
    \/ SetHidden
    \/ SetBackend
    \/ ExecuteAction
    \/ HandleCommand
    \/ HandleShortcut
    \/ SessionShortcut

\* ------------------------------------------------------------------------
\* AsyncREPL: the session loop and the cancellation coordinator
\* ------------------------------------------------------------------------
\* The event loop is asyncio's: one thread, a FIFO queue of ready handles,
\* each handle run to its next suspension point.  Everything that happens
\* outside the loop (a key press, an I/O completion the backend waits for,
\* a call of the cross-context trigger from another thread) appends a
\* handle to the queue.
NoMessage == <<>>

\* No command has been dispatched since the loop last waited for input.
NoDispatch == [invoked |-> <<>>, printed |-> <<>>, result |-> "none"]

LineHi == <<"h", "i">>

\* Lines the prompt returns: the exit commands as typed and with padding and
\* capitals, blank lines, commands (known, unknown, with a failing handler,
\* an exit command followed by a word) and content.
InputLines ==
    { <<"/", "e", "x", "i", "t">>,
      <<" ", "/", "E", "X", "I", "T", " ">>,
      <<"/", "Q", "u", "i", "t">>,
      <<>>,
      <<" ", " ">>,
      <<"/", "h", "e", "l", "p">>,
      <<" ", "/", "n", "o", "p", "e">>,
      <<"/", "a", " ", "x">>,
      <<"/", "e", "x", "i", "t", " ", "n", "o", "w">>,
      LineHi,
      <<"e", "x", "i", "t">> }

\* Messages run() is started with.
InitialMessages == {NoMessage, LineHi}

Chords == {"alt_c", "ctrl_c"}

Handle(kind, t, c) == [k |-> kind, t |-> t, c |-> c]
MainHandle == Handle("main", 0, "")
BackendHandle(t) == Handle("backend", t, "")
ListenerHandle(t) == Handle("listener", t, "")
OnCompletionHandle(t) == Handle("on_completion", t, "")
SetCancelHandle(t) == Handle("set_cancel", t, "")
KeyHandle(t, chord) == Handle("key", t, chord)

\* asyncio.Task.done() of the backend task.
BackendDone(r) == r.btask \in {"true", "false", "raised", "cancelled"}
BackendUnresolved(r) == r.btask \in {"pending", "suspended", "ready"}

\* asyncio.Task.done() of the listener task.
ListenerDone(r) == r.listener \in {"done"}
\* Application.is_done: the application's future exists and is resolved.
AppIsDone(r) == r.listener \in {"exit_ok", "exit_ki", "unwind_ki", "done"}
\* The cancel application is reading keys.
ListenerActive(r) == r.listener \in {"created", "running", "exit_ok", "exit_ki", "unwind_ki"}

\* The loop is running handles: run() is suspended in an await.
LoopRunning == pc \in {"prompt", "proc_wait", "cancel_await", "cleanup_await", "cmd_yield"}

\* _is_exit_command(user_input)
_is_exit_command(user_input) == Lower(Strip(user_input)) \in {CmdExit, CmdQuit}

\* A context that keeps the cancel future of the turn before.
ReusedSlotTurn(isInitial) ==
    [initial |-> isInitial, sent |-> {},
     slot |-> Len(turns) > 0 /\ turns[Len(turns)].slot,
     waiter |-> "none", waitcb |-> FALSE,
     btask |-> "none", bcancel |-> FALSE, bsteps |-> 0,
     listener |-> "created", lcancel |-> FALSE,
     out |-> <<>>, log |-> <<>>, events |-> <<>>, hook |-> 0, creq |-> 0,
     resolves |-> 0, keys |-> 0, triggers |-> 0,
     path |-> "none", tie |-> FALSE, ended |-> FALSE]

\* _cancellation_context, up to the yield: a fresh cancel future, a cancel
\* application and its listener task (created, not yet run).
NewTurn(isInitial) ==
    [initial |-> isInitial, sent |-> {}, slot |-> FALSE,
     waiter |-> "none", waitcb |-> FALSE,
     btask |-> "none", bcancel |-> FALSE, bsteps |-> 0,
     listener |-> "created", lcancel |-> FALSE,
     out |-> <<>>, log |-> <<>>, events |-> <<>>, hook |-> 0, creq |-> 0,
     resolves |-> 0, keys |-> 0, triggers |-> 0,
     path |-> "none", tie |-> FALSE, ended |-> FALSE]

\* What is left of a turn once the next input has been read: the tasks it
\* left behind, if any, and their slot.  What it printed and logged has
\* been seen by then, and a resolved task is garbage.
Forget(r) ==
    LET b == BackendUnresolved(r)
        l == ListenerActive(r)
    IN  [NewTurn(FALSE) EXCEPT !.btask = IF b THEN r.btask ELSE "none",
                               !.bcancel = b /\ r.bcancel,
                               !.bsteps = IF b THEN r.bsteps ELSE 0,
                               !.listener = IF l THEN r.listener ELSE "done",
                               !.lcancel = l /\ r.lcancel,
                               !.slot = (b \/ l) /\ r.slot,
                               !.events = IF r.btask = "pending" THEN r.events ELSE <<>>,
                               !.ended = r.ended]

Forgotten == [t \in 1..Len(turns) |-> Forget(turns[t])]

\* Keyword arguments that leave the images out.
NoImagesKwargs(r) == r

\* _build_backend_kwargs: the images keyword is the buffer when non-empty.
_build_backend_kwargs(r) == [r EXCEPT !.sent = image_buffer]

\* _cleanup_cancel_context followed by _reset_ui: the finally block of
\* _cancellation_context after the buffer has been cleared.  Result: the
\* turn, the queue and where run() is suspended next.
_cleanup_cancel_context(r, q, t) ==
    IF r.listener = "created"
    THEN \* cancel_app.exit() raises: the application is not running yet.
         \* The except clause ends the cleanup; the listener is not cancelled.
         [r |-> [r EXCEPT !.ended = TRUE], q |-> q, pc |-> "prompt"]
    ELSE IF ~AppIsDone(r)
    THEN \* cancel_app.exit(), then listener_task.cancel() and await it.
         [r |-> [r EXCEPT !.listener = "exit_ok", !.lcancel = TRUE],
          q |-> Append(q, ListenerHandle(t)), pc |-> "cleanup_await"]
    ELSE IF ~ListenerDone(r)
    THEN [r |-> [r EXCEPT !.lcancel = TRUE], q |-> q, pc |-> "cleanup_await"]
    ELSE [r |-> [r EXCEPT !.ended = TRUE], q |-> q, pc |-> "prompt"]

\* A teardown that leaves the buffer as it is.
KeptBuffer(buf) == buf
\* self._image_buffer.clear()
ClearedBuffer(buf) == {}

\* The finally block: clear the buffer, clean up, reset the UI.
Teardown(r, q, t) ==
    /\ image_buffer' = ClearedBuffer(image_buffer)
    /\ LET res == _cleanup_cancel_context(r, q, t)
       IN  /\ turns' = IF t > Len(turns) THEN Append(Forgotten, res.r)
                       ELSE [turns EXCEPT ![t] = res.r]
           /\ ready' = res.q
           /\ pc' = res.pc

\* Where a KeyboardInterrupt is raised in the coordinator's synchronous code.
Interrupts == {"none", "before_print", "before_wait"}

\* _process_input from its start to its first await, for a new turn.
\* intr is where a KeyboardInterrupt is raised in the coordinator's own
\* code, if one is.
_process_input(isInitial, intr) ==
    LET t == Len(turns) + 1
        r0 == _build_backend_kwargs(NewTurn(isInitial))
        q0 == Append(ready, ListenerHandle(t))
    IN  /\ Len(turns) < MaxTurns
        /\ IF ~backend.kwargs
           THEN \* backend.handle_input(user_input, cancel_callback=...) is a
                \* TypeError for a handle_input without that keyword.
                /\ intr = "none"
                /\ Teardown([r0 EXCEPT !.path = "fault",
                                       !.log = Append(@, "Error during input processing"),
                                       !.events = Append(@, "log")],
                            q0, t)
           ELSE LET r1 == [r0 EXCEPT !.btask = "pending"]
                    q1 == Append(q0, BackendHandle(t))
                IN  CASE intr = "none" ->
                           /\ turns' = Append(Forgotten, [r1 EXCEPT !.out = <<"thinking">>,
                                                               !.events = <<"indicator">>,
                                                               !.waiter = "pending",
                                                               !.waitcb = TRUE])
                           /\ ready' = q1
                           /\ pc' = "proc_wait"
                           /\ UNCHANGED image_buffer
                      [] intr = "before_print" ->
                           \* except KeyboardInterrupt: resolve the slot; finally.
                           Teardown([r1 EXCEPT !.path = "interrupt", !.slot = TRUE], q1, t)
                      [] intr = "before_wait" ->
                           Teardown([r1 EXCEPT !.path = "interrupt", !.slot = TRUE,
                                               !.out = <<"thinking">>,
                                               !.events = <<"indicator">>], q1, t)



\* run(), from its start to its first await.
RunStart ==
    /\ pc = "start"
    /\ IF initial_message # NoMessage
       THEN \E intr \in Interrupts : _process_input(TRUE, intr)
       ELSE /\ pc' = "prompt"
            /\ UNCHANGED <<turns, ready, image_buffer>>
    /\ UNCHANGED <<image_counter, backend, initial_message, imgVars, attachVars, headlessVars, session>>
    /\ _backend' = IF Conforms(RunBackend) THEN RunBackend ELSE _backend
    /\ UNCHANGED regTables

\* The prompt is answered by the user: by then the loop has run the handles
\* that were ready when run() began to wait.
AtPrompt == pc = "prompt" /\ ready = <<>>

\* A loop that looks for the command marker before the exit sentinels.
CommandFirst(user_input) ==
    IF Strip(user_input) = <<>> THEN "blank"
    ELSE IF StartsWithSlash(Strip(user_input)) THEN "command"
    ELSE "content"

\* Classification of a line read from the prompt, in the code's order.
Classify(user_input) ==
    IF _is_exit_command(user_input) THEN "exit"
    ELSE IF Strip(user_input) = <<>> THEN "blank"
    ELSE IF StartsWithSlash(Strip(user_input)) THEN "command"
    ELSE "content"

\* One pass of the while loop of run() for a line the prompt returned,
\* up to its first await.  session.carried records that the pass ended
\* with images still in the buffer.
PromptLineOf(user_input) ==
    /\ AtPrompt
    /\ session.inputs < MaxInputs
    /\ LET kind == Classify(user_input)
           kept == image_buffer # {}
       IN  CASE kind = "exit" ->
                  /\ pc' = "terminated"
                  /\ turns' = Forgotten
                  /\ UNCHANGED <<ready, image_buffer>>
                  /\ session' = [session EXCEPT !.inputs = @ + 1, !.ended_by = "exit"]
             [] kind = "blank" ->
                  /\ turns' = Forgotten
                  /\ UNCHANGED <<pc, ready, image_buffer>>
                  /\ session' = [session EXCEPT !.inputs = @ + 1, !.carried = kept]
             [] kind = "command" ->
                  \* handle_command, then asyncio.sleep(0)
                  /\ pc' = "cmd_yield"
                  /\ ready' = Append(ready, MainHandle)
                  /\ turns' = Forgotten
                  /\ UNCHANGED image_buffer
                  /\ session' = [session EXCEPT !.inputs = @ + 1, !.carried = kept,
                                    !.dispatch = handle_command(Strip(user_input))]
             [] kind = "content" ->
                  /\ \E intr \in Interrupts : _process_input(FALSE, intr)
                  /\ session' = [session EXCEPT !.inputs = @ + 1]
    /\ UNCHANGED <<image_counter, backend, initial_message, imgVars, attachVars, headlessVars>>
    /\ UNCHANGED regVars

\* session.prompt_async() returns a line.
PromptLine == \E user_input \in InputLines : PromptLineOf(user_input)

\* prompt_async raises EOFError (end of input).
PromptEOF ==
    /\ AtPrompt
    /\ pc' = "terminated"
    /\ session' = [session EXCEPT !.ended_by = "eof"]
    /\ turns' = Forgotten
    /\ UNCHANGED <<ready, image_buffer, image_counter, backend, initial_message, imgVars, attachVars, headlessVars>>
    /\ UNCHANGED regVars

\* prompt_async raises KeyboardInterrupt (Ctrl-C at the prompt).
PromptInterrupt ==
    /\ AtPrompt
    /\ pc' = "terminated"
    /\ session' = [session EXCEPT !.ended_by = "interrupt"]
    /\ turns' = Forgotten
    /\ UNCHANGED <<ready, image_buffer, image_counter, backend, initial_message, imgVars, attachVars, headlessVars>>
    /\ UNCHANGED regVars

\* add_image, called by the paste action while the prompt is open.
add_image ==
    /\ AtPrompt
    /\ image_counter < MaxImages
    /\ image_counter' = image_counter + 1
    /\ image_buffer' = image_buffer \cup {image_counter + 1}
    /\ session' = [session EXCEPT !.carried = image_buffer # {} /\ @]
    /\ UNCHANGED <<pc, turns, ready, backend, initial_message, imgVars, attachVars, headlessVars>>
    /\ UNCHANGED regVars

\* ------------------------------------------------------------------------
\* Events from outside the event loop
\* ------------------------------------------------------------------------
\* A cancel chord is typed while a cancel application reads the keyboard.
KeyPress ==
    /\ LoopRunning
    /\ \E t \in {Len(turns)} \ {0}, chord \in Chords :
        /\ turns[t].listener = "running"
        /\ turns[t].keys < MaxKeys
        /\ turns' = [turns EXCEPT ![t].keys = @ + 1]
        /\ ready' = Append(ready, KeyHandle(t, chord))
    /\ UNCHANGED <<pc, image_buffer, image_counter, backend, initial_message, imgVars, attachVars, headlessVars, session>>
    /\ UNCHANGED regVars

\* A trigger that sets the cancel future itself, in the caller's step.
set_cancel_in_caller ==
    /\ LoopRunning
    /\ \E t \in {Len(turns)} \ {0} :
        /\ turns[t].btask \notin {"none", "pending"}
        /\ turns[t].triggers < MaxTriggers
        /\ turns' = [turns EXCEPT ![t].triggers = @ + 1, ![t].slot = TRUE,
                                  ![t].resolves = @ + 1]
        /\ ready' = IF turns[t].waitcb /\ ~turns[t].slot
                    THEN Append(ready, OnCompletionHandle(t)) ELSE ready
    /\ UNCHANGED <<pc, image_buffer, image_counter, backend, initial_message, imgVars, attachVars, headlessVars, session>>
    /\ UNCHANGED regVars

\* trigger_cancel(): the backend, or a thread it started, calls the
\* cancel_callback it was given, during the operation or after it has
\* resolved; the call only posts _set_cancel.
trigger_cancel ==
    /\ LoopRunning
    /\ \E t \in {Len(turns)} \ {0} :
        /\ turns[t].btask \notin {"none", "pending"}
        /\ turns[t].triggers < MaxTriggers
        /\ turns' = [turns EXCEPT ![t].triggers = @ + 1]
        /\ ready' = Append(ready, SetCancelHandle(t))
    /\ UNCHANGED <<pc, image_buffer, image_counter, backend, initial_message, imgVars, attachVars, headlessVars, session>>
    /\ UNCHANGED regVars

\* What a suspended backend operation waits for completes.
BackendIO ==
    /\ LoopRunning
    /\ \E t \in 1..Len(turns) :
        /\ turns[t].btask = "suspended"
        /\ turns' = [turns EXCEPT ![t].btask = "ready"]
        /\ ready' = Append(ready, BackendHandle(t))
    /\ UNCHANGED <<pc, image_buffer, image_counter, backend, initial_message, imgVars, attachVars, headlessVars, session>>
    /\ UNCHANGED regVars

\* The backend still has the cancel_callback of an earlier turn t: its
\* handle_input was called with it (the call of a backend that takes no such
\* keyword fails before the backend sees it) and has started.
HoldsTrigger(t) == backend.kwargs /\ turns[t].btask # "pending"

\* trigger_cancel() of an earlier turn, called by the backend or by a thread
\* it started after that turn's teardown.
LateTrigger ==
    /\ LoopRunning
    /\ \E t \in 1..(Len(turns) - 1) :
        /\ HoldsTrigger(t)
        /\ turns[t].triggers < MaxTriggers
        /\ turns' = [turns EXCEPT ![t].triggers = @ + 1]
        /\ ready' = Append(ready, SetCancelHandle(t))
    /\ UNCHANGED <<pc, image_buffer, image_counter, backend, initial_message, imgVars, attachVars, headlessVars, session>>
    /\ UNCHANGED regVars

\* A cancel chord reaches the cancel application of an earlier turn, which
\* the teardown of that turn left running.
LateKeyPress ==
    /\ LoopRunning
    /\ \E t \in 1..(Len(turns) - 1), chord \in Chords :
        /\ turns[t].listener = "running"
        /\ turns[t].keys < MaxKeys
        /\ turns' = [turns EXCEPT ![t].keys = @ + 1]
        /\ ready' = Append(ready, KeyHandle(t, chord))
    /\ UNCHANGED <<pc, image_buffer, image_counter, backend, initial_message, imgVars, attachVars, headlessVars, session>>
    /\ UNCHANGED regVars

\* ------------------------------------------------------------------------
\* Handles run by the event loop, in FIFO order
\* ------------------------------------------------------------------------
HeadIs(kind) == LoopRunning /\ ready # <<>> /\ Head(ready).k = kind

\* cancel_future.set_result(None) behind `if not cancel_future.done()`:
\* the slot resolves once; asyncio.wait's callback is scheduled if set.
ResolveSlot(r, q, t) ==
    IF r.slot
    THEN [r |-> [r EXCEPT !.resolves = @ + 1], q |-> q]
    ELSE [r |-> [r EXCEPT !.slot = TRUE, !.resolves = @ + 1],
          q |-> IF r.waitcb THEN Append(q, OnCompletionHandle(t)) ELSE q]

\* A callback that resolves the slot of the turn in progress, as it would
\* with one slot kept on the session.
_set_session_cancel ==
    /\ HeadIs("set_cancel")
    /\ LET t == Len(turns)
           res == ResolveSlot(turns[t], Tail(ready), t)
       IN  /\ turns' = [turns EXCEPT ![t] = res.r]
           /\ ready' = res.q
    /\ UNCHANGED <<pc, image_buffer, image_counter, backend, initial_message, imgVars, attachVars, headlessVars, session>>
    /\ UNCHANGED regVars

\* _set_cancel, posted by trigger_cancel.
_set_cancel ==
    /\ HeadIs("set_cancel")
    /\ LET t == Head(ready).t
           res == ResolveSlot(turns[t], Tail(ready), t)
       IN  /\ turns' = [turns EXCEPT ![t] = res.r]
           /\ ready' = res.q
    /\ UNCHANGED <<pc, image_buffer, image_counter, backend, initial_message, imgVars, attachVars, headlessVars, session>>
    /\ UNCHANGED regVars

\* handle_alt_c / handle_ctrl_c.  The key processor drops keys once the
\* application is done.
KeyHandler ==
    /\ HeadIs("key")
    /\ LET t == Head(ready).t
           chord == Head(ready).c
           r == turns[t]
       IN  IF r.listener # "running"
           THEN /\ ready' = Tail(ready)
                /\ UNCHANGED turns
           ELSE LET res == ResolveSlot(r, Tail(ready), t)
                IN  /\ turns' = [turns EXCEPT ![t] =
                            [res.r EXCEPT !.listener =
                                IF chord = "alt_c" THEN "exit_ok" ELSE "exit_ki"]]
                    /\ ready' = Append(res.q, ListenerHandle(t))
    /\ UNCHANGED <<pc, image_buffer, image_counter, backend, initial_message, imgVars, attachVars, headlessVars, session>>
    /\ UNCHANGED regVars

\* asyncio.wait's _on_completion: wake the coordinator once.
_on_completion ==
    /\ HeadIs("on_completion")
    /\ LET t == Head(ready).t
       IN  IF turns[t].waiter = "pending"
           THEN /\ turns' = [turns EXCEPT ![t].waiter = "done"]
                /\ ready' = Append(Tail(ready), MainHandle)
           ELSE /\ ready' = Tail(ready)
                /\ UNCHANGED turns
    /\ UNCHANGED <<pc, image_buffer, image_counter, backend, initial_message, imgVars, attachVars, headlessVars, session>>
    /\ UNCHANGED regVars

\* Outcomes of one step of backend.handle_input.  Suspend is reaching an
\* await that does not complete at once.
StepOutcomes(r) ==
    IF r.bcancel
    THEN \* CancelledError is thrown into the coroutine.  One that has not
         \* started cannot catch it; one that has may catch it.
         IF r.btask = "pending" THEN {"cancelled"}
         ELSE {"cancelled", "false", "raised"}
              \cup (IF r.bsteps < MaxSuspends THEN {"suspended"} ELSE {})
    ELSE {"true", "false", "raised"}
         \cup (IF r.bsteps < MaxSuspends THEN {"suspended"} ELSE {})

\* One step of the backend task.
BackendStep ==
    /\ HeadIs("backend")
    /\ LET t == Head(ready).t
           r == turns[t]
       IN  \E o \in StepOutcomes(r) :
            LET r1 == [r EXCEPT !.btask = o, !.bcancel = FALSE,
                                !.bsteps = IF o = "suspended" THEN @ + 1 ELSE @,
                                !.events = IF r.btask = "pending" /\ o # "cancelled"
                                            THEN Append(@, "step") ELSE @]
                q1 == IF o = "suspended" THEN Tail(ready)
                      ELSE IF r.waitcb THEN Append(Tail(ready), OnCompletionHandle(t))
                      ELSE IF pc = "cancel_await" /\ t = Len(turns) /\ ~r.ended
                      THEN Append(Tail(ready), MainHandle)
                      ELSE Tail(ready)
            IN  /\ turns' = [turns EXCEPT ![t] = r1]
                /\ ready' = q1
    /\ UNCHANGED <<pc, image_buffer, image_counter, backend, initial_message, imgVars, attachVars, headlessVars, session>>
    /\ UNCHANGED regVars

\* One step of the listener task (cancel_app.run_async()).
ListenerStep ==
    /\ HeadIs("listener")
    /\ LET t == Head(ready).t
           r == turns[t]
           wake == IF pc = "cleanup_await" /\ t = Len(turns)
                   THEN Append(Tail(ready), MainHandle) ELSE Tail(ready)
       IN  CASE r.listener = "created" ->
                  \* run_async starts and waits for the application's future
                  /\ turns' = [turns EXCEPT ![t].listener = "running"]
                  /\ ready' = Tail(ready)
                  /\ UNCHANGED pc
             [] r.listener = "exit_ok" \/ (r.listener \in {"exit_ki", "unwind_ki"} /\ r.lcancel) ->
                  \* returns, or ends cancelled: the awaiting cleanup wakes
                  /\ turns' = [turns EXCEPT ![t].listener = "done"]
                  /\ ready' = wake
                  /\ UNCHANGED pc
             [] r.listener = "exit_ki" /\ ~r.lcancel ->
                  \* run_async raises KeyboardInterrupt, at once or after its
                  \* unwinding has waited for the application's own tasks
                  \/ /\ turns' = [turns EXCEPT ![t].listener = "raised_ki"]
                     /\ ready' = Tail(ready)
                     /\ pc' = "crashed"
                  \/ /\ turns' = [turns EXCEPT ![t].listener = "unwind_ki"]
                     /\ ready' = Append(Tail(ready), ListenerHandle(t))
                     /\ UNCHANGED pc
             [] r.listener = "unwind_ki" /\ ~r.lcancel ->
                  \* a KeyboardInterrupt that leaves a task leaves the loop
                  /\ turns' = [turns EXCEPT ![t].listener = "raised_ki"]
                  /\ ready' = Tail(ready)
                  /\ pc' = "crashed"
             [] OTHER ->
                  /\ ready' = Tail(ready)
                  /\ UNCHANGED <<turns, pc>>
    /\ UNCHANGED <<image_buffer, image_counter, backend, initial_message, imgVars, attachVars, headlessVars, session>>
    /\ UNCHANGED regVars

\* ------------------------------------------------------------------------
\* The coordinator resumes
\* ------------------------------------------------------------------------
\* A coordinator that looks at the backend task first.
BackendFirst(r) == r.slot /\ ~BackendDone(r)
\* `if ctx["cancel_future"] in done`: the slot is looked at first.
CancelWins(r) == r.slot

\* `if backend_task and not backend_task.done()`
NeedsTaskCancel(r) == ~BackendDone(r)

\* isinstance(backend, CancellableBackend): the backend has a cancel hook.
IsCancellable(b) == b.cancel

\* How many times a message is in a turn's output.
\* Outcomes of backend.cancel("Operation cancelled by user"): it returns
\* or it raises; a backend without the capability is not called.
HookOutcomes(b) == IF IsCancellable(b) THEN {"returned", "raised"} ELSE {"absent"}

\* A coordinator that calls cancel() without testing for the capability:
\* on a backend without it the call raises and the error is logged.
SignalUntested(r, h) ==
    [r EXCEPT !.hook = @ + 1,
              !.events = Append(@, "hook"),
              !.log = IF h # "returned"
                      THEN Append(@, "Error signaling cancellation to backend")
                      ELSE @]

\* _handle_cancellation, the signalling of the backend: the hook is called
\* once, and what it raises is logged.
SignalBackend(r, h) ==
    IF h = "absent" THEN r
    ELSE [r EXCEPT !.hook = @ + 1,
                   !.events = Append(@, "hook"),
                   !.log = IF h = "raised"
                           THEN Append(@, "Error signaling cancellation to backend")
                           ELSE @]

\* A coordinator that drops the result of the operation.
ReportNothing(result) == <<>>

\* What _process_input prints for the result of a resolved operation.
ReportResult(result) == IF result = "false" THEN <<"failed">> ELSE <<>>

\* _handle_cancellation leaves a task that is already done alone (`if
\* backend_task and not backend_task.done()`), so nothing reads the exception
\* the task holds; when _process_input returns, the task object is released
\* and asyncio logs "Task exception was never retrieved" with the traceback.
ReleaseTask(r) ==
    IF r.btask = "raised"
    THEN [r EXCEPT !.log = Append(@, "Task exception was never retrieved"),
                   !.events = Append(@, "log")]
    ELSE r

Count(seq, x) == Cardinality({i \in 1..Len(seq) : seq[i] = x})

\* _process_input after asyncio.wait has returned.
AfterWait ==
    /\ pc = "proc_wait"
    /\ HeadIs("main")
    /\ LET t == Len(turns)
           r == [turns[t] EXCEPT !.waitcb = FALSE,
                                 !.tie = turns[t].slot /\ BackendDone(turns[t])]
           q == Tail(ready)
       IN  IF CancelWins(r)
           THEN \* _handle_cancellation
                \E h \in HookOutcomes(backend) :
                LET r1 == SignalBackend([r EXCEPT !.path = "cancel",
                                                  !.out = Append(@, "cancelled"),
                                                  !.events = Append(@, "notice")], h)
                IN  IF NeedsTaskCancel(r1)
                    THEN \* backend_task.cancel(); await backend_task
                         /\ turns' = [turns EXCEPT ![t] =
                                [r1 EXCEPT !.creq = @ + 1, !.bcancel = TRUE,
                                           !.events = Append(@, "task_cancel"),
                                           !.btask = IF @ = "suspended" THEN "ready" ELSE @]]
                         /\ ready' = IF r1.btask = "suspended"
                                     THEN Append(q, BackendHandle(t)) ELSE q
                         /\ pc' = "cancel_await"
                         /\ UNCHANGED image_buffer
                    ELSE Teardown(ReleaseTask(r1), q, t)
           ELSE \* backend_task.result()
                LET r1 == [r EXCEPT !.path = "backend",
                                    !.out = @ \o ReportResult(r.btask),
                                    !.events = @ \o ReportResult(r.btask)
                                                 \o (IF r.btask = "raised" THEN <<"log">> ELSE <<>>),
                                    !.log = IF r.btask = "raised"
                                            THEN Append(@, "Backend task raised exception")
                                            ELSE @]
                IN  Teardown(r1, q, t)
    /\ UNCHANGED <<image_counter, backend, initial_message, imgVars, attachVars, headlessVars, session>>
    /\ UNCHANGED regVars

\* _handle_cancellation after `await backend_task`: CancelledError is
\* passed over, any other exception leaves the body and is logged by the
\* context manager.
AfterCancelAwait ==
    /\ pc = "cancel_await"
    /\ HeadIs("main")
    /\ LET t == Len(turns)
           r == turns[t]
           r1 == [r EXCEPT !.log = IF r.btask = "raised"
                                   THEN Append(@, "Error during input processing")
                                   ELSE @,
                           !.events = IF r.btask = "raised" THEN Append(@, "log") ELSE @]
       IN  Teardown(r1, Tail(ready), t)
    /\ UNCHANGED <<image_counter, backend, initial_message, imgVars, attachVars, headlessVars, session>>
    /\ UNCHANGED regVars

\* _cleanup_cancel_context after `await listener_task`, then _reset_ui;
\* _process_input returns to run().
AfterCleanup ==
    /\ pc = "cleanup_await"
    /\ HeadIs("main")
    /\ turns' = [turns EXCEPT ![Len(turns)].ended = TRUE]
    /\ ready' = Tail(ready)
    /\ pc' = "prompt"
    /\ UNCHANGED <<image_buffer, image_counter, backend, initial_message, imgVars, attachVars, headlessVars, session>>
    /\ UNCHANGED regVars

\* run() after `await asyncio.sleep(0)`.
AfterYield ==
    /\ pc = "cmd_yield"
    /\ HeadIs("main")
    /\ ready' = Tail(ready)
    /\ pc' = "prompt"
    /\ session' = [session EXCEPT !.dispatch = NoDispatch]
    /\ UNCHANGED <<turns, image_buffer, image_counter, backend, initial_message, imgVars, attachVars, headlessVars>>
    /\ UNCHANGED regVars

(***************************************************************************)
(* images.py: placeholders {{image:id}} in a message.  A text is a         *)
(* sequence of characters; offsets are 0-based as in the source, so the    *)
(* slice text[a:b] is SubSeq(text, a + 1, b).                              *)
(***************************************************************************)
MaxChunks == 3

\* The characters of the texts, and those that \w matches among them.
WordChars == {"i", "m", "a", "g", "e", "b", "x", "_"}

IsWordChar(c) == c \in WordChars

TokenOpen == <<"{", "{", "i", "m", "a", "g", "e", ":">>
TokenClose == <<"}", "}">>

\* The placeholder of an id.
Placeholder(id) == TokenOpen \o id \o TokenClose

RECURSIVE WordRunEnd(_, _)
\* \w+ is greedy: the offset after the run of word characters from offset j.
WordRunEnd(s, j) ==
    IF j < Len(s) /\ IsWordChar(s[j + 1]) THEN WordRunEnd(s, j + 1) ELSE j

\* The pattern \{\{image:(\w+)\}\} tried at offset pos: match.end(), or 0
\* when the pattern does not match there.
MatchEnd(s, pos) ==
    IF pos + 8 <= Len(s) /\ SubSeq(s, pos + 1, pos + 8) = TokenOpen
    THEN LET e == WordRunEnd(s, pos + 8)
         IN  IF e > pos + 8 /\ e + 2 <= Len(s) /\ SubSeq(s, e + 1, e + 2) = TokenClose
             THEN e + 2
             ELSE 0
    ELSE 0

\* The part of a text, and the part of a reference.  A text part has no
\* id (None in the source; an id is never empty, so the empty id stands
\* for None here).
NoId == <<>>
TextPart(content) == [content |-> content, id |-> NoId]
RefPart(image_id) == [content |-> <<>>, id |-> image_id]

\* A parser that forgets the text after the last placeholder.
NoRemaining(s, last_end) == <<>>

\* if last_end < len(text): parts.append((text[last_end:], None))
Remaining(s, last_end) ==
    IF last_end < Len(s) THEN <<TextPart(SubSeq(s, last_end + 1, Len(s)))>> ELSE <<>>

\* if match.start() > last_end: parts.append((text[last_end:match.start()], None))
TextBefore(s, last_end, start) ==
    IF start > last_end THEN <<TextPart(SubSeq(s, last_end + 1, start))>> ELSE <<>>

RECURSIVE finditer(_, _, _, _, _)
\* The loop over re.finditer(pattern, text): the matches are found from
\* left to right and do not overlap.
finditer(s, pos, last_end, parts, image_ids) ==
    IF pos >= Len(s)
    THEN [text |-> s, parts |-> parts \o Remaining(s, last_end), image_ids |-> image_ids]
    ELSE LET end == MatchEnd(s, pos)
         IN  IF end = 0
             THEN finditer(s, pos + 1, last_end, parts, image_ids)
             ELSE LET image_id == SubSeq(s, pos + 9, end - 2)
                  IN  finditer(s, end, end,
                               parts \o TextBefore(s, last_end, pos) \o <<RefPart(image_id)>>,
                               image_ids \cup {image_id})

parse_image_references(s) == finditer(s, 0, 0, <<>>, {})

\* A lookup that answers with some entry of the buffer whatever the id.
get_any(dict, image_id) ==
    IF DOMAIN dict = {} THEN None ELSE dict[CHOOSE k \in DOMAIN dict : TRUE]

\* images.get(image_id)
images_get(dict, image_id) ==
    IF image_id \in DOMAIN dict THEN dict[image_id] ELSE None

\* images or {}
OrEmpty(arg) == IF arg.given THEN arg.dict ELSE <<>>

\* iter_content_parts(text, images): what the generator yields, in order.
iter_content_parts(s, arg) ==
    LET parts == parse_image_references(s).parts
        dict == OrEmpty(arg)
    IN  [k \in 1..Len(parts) |->
            IF parts[k].id # NoId
            THEN [content |-> <<>>, image |-> images_get(dict, parts[k].id)]
            ELSE [content |-> parts[k].content, image |-> None]]

\* The pieces the texts are made of: whole placeholders, placeholders in
\* pieces, an empty id, an id with a character that \w does not match.
Chunks ==
    { Placeholder(<<"a">>), Placeholder(<<"b", "_">>), TokenOpen, TokenClose,
      <<"a">>, <<"x", " ">>, <<"{">>, <<"-">> }

RECURSIVE TextsOf(_)
TextsOf(n) ==
    IF n = 0 THEN {<<>>}
    ELSE LET shorter == TextsOf(n - 1)
         IN  shorter \cup {t \o c : t \in shorter, c \in Chunks}

TextInputs == TextsOf(MaxChunks)

\* The images argument: None, or a dict with some of the ids.
ImageData(id) == IF id = <<"a">> THEN "data_a" ELSE "data_b"
NoImages == [given |-> FALSE, dict |-> <<>>]
ImagesInputs ==
    {NoImages} \cup
    {[given |-> TRUE, dict |-> [id \in ids |-> ImageData(id)]] :
        ids \in SUBSET {<<"a">>, <<"b", "_">>}}

NoParse == [op |-> "none"]

\* parsed = parse_image_references(text)
ParseImageReferences ==
    /\ parsed' = [op |-> "parse_image_references"] @@ parse_image_references(text)
    /\ UNCHANGED <<regVars, pc, turns, ready, image_buffer, image_counter, backend,
                   initial_message, session, text, images, attachVars, headlessVars>>

\* list(iter_content_parts(text, images))
IterContentParts ==
    /\ parsed' = [op |-> "iter_content_parts", yielded |-> iter_content_parts(text, images)]
    /\ UNCHANGED <<regVars, pc, turns, ready, image_buffer, image_counter, backend,
                   initial_message, session, text, images, attachVars, headlessVars>>

NextImages == ParseImageReferences \/ IterContentParts

(***************************************************************************)
(* images.py and async_repl.py: the paste action and the attachment buffer.*)
(* Clipboard bytes are sequences of byte atoms; a clipboard text stays an  *)
(* atom.                                                                   *)
(***************************************************************************)
SigPng == <<"x89", "P", "N", "G", "CR", "LF", "x1a", "LF">>
SigJpeg == <<"xff", "xd8", "xff">>
SigGif87 == <<"G", "I", "F", "8", "7", "a">>
SigGif89 == <<"G", "I", "F", "8", "9", "a">>
SigRiff == <<"R", "I", "F", "F">>
SigWebp == <<"W", "E", "B", "P">>
SigBmp == <<"B", "M">>

\* data.startswith(prefix)
StartsWith(data, prefix) ==
    Len(data) >= Len(prefix) /\ SubSeq(data, 1, Len(prefix)) = prefix

\* A detector that looks at the signature only.
detect_by_signature(data) ==
    IF StartsWith(data, SigPng) THEN "image/png"
    ELSE IF StartsWith(data, SigJpeg) THEN "image/jpeg"
    ELSE IF StartsWith(data, SigGif87) \/ StartsWith(data, SigGif89) THEN "image/gif"
    ELSE IF StartsWith(data, SigBmp) THEN "image/bmp"
    ELSE None

\* detect_media_type(data): None, or the MIME type of the signature.
detect_media_type(data) ==
    IF data = <<>> \/ Len(data) < 12 THEN None
    ELSE IF StartsWith(data, SigPng) THEN "image/png"
    ELSE IF StartsWith(data, SigJpeg) THEN "image/jpeg"
    ELSE IF StartsWith(data, SigGif87) \/ StartsWith(data, SigGif89) THEN "image/gif"
    ELSE IF StartsWith(data, SigRiff) /\ SubSeq(data, 9, 12) = SigWebp THEN "image/webp"
    ELSE IF StartsWith(data, SigBmp) THEN "image/bmp"
    ELSE None

\* n filler bytes.
Filler(n) == [k \in 1..n |-> "x00"]

\* What pyclip.paste(text=False) may return: nothing, each signature with
\* 12 bytes or more, each signature cut short, and bytes of no image.
ClipboardBytes ==
    { <<>>,
      SigPng \o Filler(4), SigPng \o Filler(3),
      SigJpeg \o Filler(9), SigJpeg \o Filler(8),
      SigGif87 \o Filler(6), SigGif89 \o Filler(5),
      SigRiff \o Filler(4) \o SigWebp, SigRiff \o Filler(4) \o <<"W", "A", "V", "E">>,
      SigBmp \o Filler(10), SigBmp \o Filler(9),
      Filler(12), <<"h", "i">> }

\* What pyclip.paste(text=True) may return: nothing or a text.
NoText == ""
ClipboardTexts == {NoText, "clipboard text"}

\* The contexts the handler runs in: built by the session's key binding
\* (repl and buffer set) or by the registry (neither set).
PasteContexts == {[repl |-> TRUE, buffer |-> TRUE], [repl |-> TRUE, buffer |-> FALSE],
                  [repl |-> FALSE, buffer |-> FALSE]}

\* Items of the prompt's buffer: a placeholder of an id, or a text.
InsertedPlaceholder(image_id) == [kind |-> "placeholder", id |-> image_id, text |-> NoText]
InsertedText(text_data) == [kind |-> "text", id |-> 0, text |-> text_data]

\* ImageData(data, media_type, timestamp); the timestamp is left out.
NewImageData(img_bytes, media_type) == [data |-> img_bytes, media_type |-> media_type]

\* AsyncREPL.add_image(img_bytes, media_type): the counter goes up, the id
\* is made from it, and the entry is stored under the id.
add_image_entry(img_bytes, media_type) ==
    LET image_id == image_counter + 1
    IN  /\ image_counter' = image_id
        /\ image_buffer' = image_buffer \cup {image_id}
        /\ image_data' = [i \in image_buffer \cup {image_id} |->
                            IF i = image_id THEN NewImageData(img_bytes, media_type)
                            ELSE image_data[i]]
        /\ issued' = Append(issued, [id |-> image_id,
                                     entry |-> NewImageData(img_bytes, media_type)])

\* paste_handler(context), with what the clipboard holds.
paste_handler(context, img_bytes, text_data) ==
    LET media_type == detect_media_type(img_bytes)
    IN  IF img_bytes # <<>> /\ media_type # None
        THEN IF ~context.repl
             THEN /\ clip' = [runs |-> clip.runs + 1, bytes |-> img_bytes, text |-> text_data,
                              context |-> context,
                              media_type |-> media_type,
                              printed |-> "Image paste not available in this context"]
                  /\ UNCHANGED <<image_buffer, image_counter, image_data, issued,
                                 prompt_buffer>>
             ELSE /\ add_image_entry(img_bytes, media_type)
                  /\ prompt_buffer' =
                        IF context.buffer
                        THEN Append(prompt_buffer, InsertedPlaceholder(image_counter + 1))
                        ELSE prompt_buffer
                  /\ clip' = [runs |-> clip.runs + 1, bytes |-> img_bytes, text |-> text_data,
                              context |-> context,
                              media_type |-> media_type, printed |-> NoText]
        ELSE /\ prompt_buffer' =
                    IF text_data # NoText /\ context.buffer
                    THEN Append(prompt_buffer, InsertedText(text_data))
                    ELSE prompt_buffer
             /\ clip' = [runs |-> clip.runs + 1, bytes |-> img_bytes, text |-> text_data,
                              context |-> context,
                         media_type |-> media_type,
                         printed |-> IF text_data = NoText THEN "No content in clipboard"
                                     ELSE NoText]
             /\ UNCHANGED <<image_buffer, image_counter, image_data, issued>>

attachFrame == <<regVars, pc, turns, ready, backend, initial_message, session, imgVars,
                 headlessVars>>

\* The paste action runs (F6 at the prompt, or /paste).
Paste ==
    /\ clip.runs < MaxPastes
    /\ \E context \in PasteContexts, img_bytes \in ClipboardBytes,
          text_data \in ClipboardTexts :
            paste_handler(context, img_bytes, text_data)
    /\ UNCHANGED attachFrame

\* A clear that also starts the ids again.
clear_and_reset ==
    /\ image_buffer # {}
    /\ image_buffer' = {}
    /\ image_data' = <<>>
    /\ image_counter' = 0
    /\ UNCHANGED <<prompt_buffer, issued, clip>>
    /\ UNCHANGED attachFrame

\* AsyncREPL.clear_images(), and the clear at the end of a turn: the buffer
\* is emptied, the counter stays.
clear_images ==
    /\ image_buffer # {}
    /\ image_buffer' = {}
    /\ image_data' = <<>>
    /\ UNCHANGED <<image_counter, prompt_buffer, issued, clip>>
    /\ UNCHANGED attachFrame

\* The prompt returns its line: the prompt's buffer starts empty again.
AcceptLine ==
    /\ prompt_buffer # <<>>
    /\ prompt_buffer' = <<>>
    /\ UNCHANGED <<image_buffer, image_counter, image_data, issued, clip>>
    /\ UNCHANGED attachFrame

NextAttach == Paste \/ clear_images \/ AcceptLine

NoClip == [runs |-> 0, bytes |-> <<>>, text |-> NoText, context |-> [repl |-> FALSE, buffer |-> FALSE],
           media_type |-> None, printed |-> NoText]

(***************************************************************************)
(* headless.py: run_headless_mode.  A line is the sequence of characters   *)
(* the stream yields, its line ending included.                            *)
(***************************************************************************)
SendToken == <<"{", "{", "s", "e", "n", "d", "}", "}">>

RECURSIVE RStripEol(_)
\* line.rstrip('\n\r')
RStripEol(s) ==
    IF s # <<>> /\ s[Len(s)] \in {"\n", "\r"}
    THEN RStripEol(SubSeq(s, 1, Len(s) - 1)) ELSE s

\* A test that takes only the bare token as the send command.
IsExactlySend(line) == line = SendToken

\* line.strip() == "{{send}}"
IsSend(line) == Strip(line) = SendToken

RECURSIVE Join(_)
\* '\n'.join(lines)
Join(lines) ==
    IF lines = <<>> THEN <<>>
    ELSE IF Len(lines) = 1 THEN lines[1]
    ELSE lines[1] \o <<"\n">> \o Join(Tail(lines))

\* A message that keeps the blanks at its ends.
JoinOnly(lines) == Join(lines)

\* message = '\n'.join(buffer).strip()
MessageOf(lines) == Strip(Join(lines))

\* What awaiting backend.handle_input(message) can do: return a true or a
\* false value, raise an Exception, or raise KeyboardInterrupt.
CallOutcomes == {"true", "false", "raise", "interrupt"}

\* Streams: up to MaxLines of these lines.
StreamLines ==
    { <<"a", "\n">>, <<" ", "b", " ", "\n">>, <<"\n">>, <<" ", "\r", "\n">>,
      SendToken \o <<"\n">>, <<" ">> \o SendToken \o <<" ", "\r", "\n">>,
      SendToken \o <<"x", "\n">>, <<"c">> }

RECURSIVE StreamsOf(_)
StreamsOf(n) ==
    IF n = 0 THEN {<<>>}
    ELSE LET shorter == StreamsOf(n - 1)
         IN  shorter \cup {Append(st, l) : st \in shorter, l \in StreamLines}

HeadlessInitial == {NoMessage, LineHi, <<" ">>}

\* try: result = await backend.handle_input(message); if not result:
\* success = False; except Exception: success = False.  KeyboardInterrupt
\* is not an Exception and passes through.
deliver(message, outcome) ==
    /\ delivered' = Append(delivered, [message |-> message, outcome |-> outcome])
    /\ success' = IF outcome \in {"false", "raise"} THEN FALSE ELSE success

\* except KeyboardInterrupt: success = False (lines 91-93), around the
\* loop over the stream and the flush at its end.
deliver_in_loop(message, outcome) ==
    /\ delivered' = Append(delivered, [message |-> message, outcome |-> outcome])
    /\ success' = IF outcome = "true" THEN success ELSE FALSE

headlessFrame == <<regVars, pc, turns, ready, image_buffer, image_counter, backend,
                   session, imgVars, attachVars>>

\* if initial_message: ... (lines 41-50); an interrupt here leaves
\* run_headless_mode as KeyboardInterrupt.
ProcessInitial ==
    /\ hpc = "initial"
    /\ IF initial_message # <<>>
       THEN \E outcome \in CallOutcomes :
                /\ deliver(initial_message, outcome)
                /\ hpc' = IF outcome = "interrupt" THEN "raised" ELSE "stream"
       ELSE /\ hpc' = "stream"
            /\ UNCHANGED <<delivered, success>>
    /\ UNCHANGED <<input_stream, consumed, buffer, initial_message>>
    /\ UNCHANGED headlessFrame

\* One pass of `for line in input_stream` (lines 56-75); an interrupt in
\* the call ends the loop in the handler of line 91.
ReadLine ==
    /\ hpc = "stream"
    /\ consumed < Len(input_stream)
    /\ consumed' = consumed + 1
    /\ LET line == RStripEol(input_stream[consumed + 1])
       IN  IF IsSend(line)
           THEN IF buffer # <<>> /\ MessageOf(buffer) # <<>>
                THEN \E outcome \in CallOutcomes :
                        /\ deliver_in_loop(MessageOf(buffer), outcome)
                        /\ hpc' = IF outcome = "interrupt" THEN "interrupted" ELSE "stream"
                        /\ buffer' = IF outcome = "interrupt" THEN buffer ELSE <<>>
                ELSE /\ buffer' = <<>>
                     /\ UNCHANGED <<delivered, success, hpc>>
           ELSE /\ buffer' = Append(buffer, line)
                /\ UNCHANGED <<delivered, success, hpc>>
    /\ UNCHANGED <<input_stream, initial_message>>
    /\ UNCHANGED headlessFrame

\* Reading the stream raises: KeyboardInterrupt (line 91) or an Exception
\* (line 94).  success = False, and the function returns.
ReadFails ==
    /\ hpc = "stream"
    /\ success' = FALSE
    /\ hpc' = "interrupted"
    /\ UNCHANGED <<input_stream, consumed, buffer, delivered, initial_message>>
    /\ UNCHANGED headlessFrame

\* The stream ends (lines 78-89), and the function returns.
EndOfStream ==
    /\ hpc = "stream"
    /\ consumed = Len(input_stream)
    /\ IF buffer # <<>> /\ MessageOf(buffer) # <<>>
       THEN \E outcome \in CallOutcomes :
                /\ deliver_in_loop(MessageOf(buffer), outcome)
                /\ hpc' = IF outcome = "interrupt" THEN "interrupted" ELSE "returned"
       ELSE /\ hpc' = "returned"
            /\ UNCHANGED <<delivered, success>>
    /\ UNCHANGED <<input_stream, consumed, buffer, initial_message>>
    /\ UNCHANGED headlessFrame

NextHeadless == ProcessInitial \/ ReadLine \/ ReadFails \/ EndOfStream

\* ------------------------------------------------------------------------
\* Specifications
\* ------------------------------------------------------------------------
\* AsyncREPL.__init__: nothing processed, nothing buffered.
InitLoop ==
    /\ pc = "start"
    /\ turns = <<>>
    /\ ready = <<>>
    /\ image_buffer = {}
    /\ image_counter = 0
    /\ session = [inputs |-> 0, ended_by |-> "none", dispatch |-> NoDispatch,
                  carried |-> FALSE]
    /\ text = <<>>
    /\ images = NoImages
    /\ parsed = NoParse
    /\ image_data = <<>>
    /\ prompt_buffer = <<>>
    /\ issued = <<>>
    /\ clip = NoClip
    /\ input_stream = <<>>
    /\ consumed = 0
    /\ buffer = <<>>
    /\ delivered = <<>>
    /\ success = TRUE
    /\ hpc = "none"

\* Backends run() is given: with or without a cancel hook, and with a
\* handle_input that accepts the cancel_callback keyword or does not.
Backends == [cancel : BOOLEAN, kwargs : BOOLEAN]

\* A registry on its own, before any session runs.
Init ==
    /\ InitRegistry
    /\ InitLoop
    /\ backend = [cancel |-> FALSE, kwargs |-> TRUE]
    /\ initial_message = NoMessage

SpecRegistry == Init /\ [][NextRegistry]_vars

\* A registry whose owner registers, toggles, binds a backend and dispatches.
SpecDispatch == Init /\ [][NextDispatch]_vars

\* The application's action, registered before the session starts.
UserAction == NewAction("act_a", "h_raise", CmdA, <<>>)

\* An application about to call run(): its registry holds the built-ins and
\* one action of its own.
InitApplication ==
    /\ heap = Append(BuiltinActions, UserAction)
    /\ actions = [n \in {BuiltinActions[i].name : i \in 1..4} \cup {UserAction.name} |->
                    IF n = UserAction.name THEN 5
                    ELSE CHOOSE i \in 1..4 : BuiltinActions[i].name = n]
    /\ command_map = [c \in {BuiltinActions[i].command : i \in 1..4} \cup {UserAction.command} |->
                        IF c = UserAction.command THEN UserAction.name
                        ELSE BuiltinActions[CHOOSE i \in 1..4 : BuiltinActions[i].command = c].name]
    /\ key_map = [k \in {"F1"} |-> "show_help"]
    /\ regLast = [op |-> "init"]
    /\ regCalls = 0
    /\ _backend = NoBackend
    /\ InitLoop

\* A session about to run.
InitSession ==
    /\ InitApplication
    /\ backend \in Backends
    /\ initial_message \in InitialMessages

NextLoop ==
    \/ RunStart
    \/ PromptLine
    \/ PromptEOF
    \/ PromptInterrupt
    \/ add_image
    \/ KeyPress
    \/ trigger_cancel
    \/ BackendIO
    \/ _set_cancel
    \/ KeyHandler
    \/ _on_completion
    \/ BackendStep
    \/ ListenerStep
    \/ AfterWait
    \/ AfterCancelAwait
    \/ AfterCleanup
    \/ AfterYield

SpecLoop == InitSession /\ [][NextLoop]_vars

\* The prompt returns a line of content.
PromptContent == PromptLineOf(LineHi)

\* A session started with an initial message and fed content lines, in which
\* the only cancel signals are late ones: the backend calls the trigger of a
\* turn, and a chord reaches the cancel application of a turn, only after
\* that turn's teardown.
InitLate ==
    /\ InitSession
    /\ initial_message = LineHi

NextLate ==
    \/ RunStart
    \/ PromptContent
    \/ LateKeyPress
    \/ LateTrigger
    \/ BackendIO
    \/ _set_cancel
    \/ KeyHandler
    \/ _on_completion
    \/ BackendStep
    \/ ListenerStep
    \/ AfterWait
    \/ AfterCleanup

SpecLate == InitLate /\ [][NextLate]_vars

\* Initial messages that the loop would not take for content if it read
\* them at the prompt, and one that it would.
InitialTexts ==
    { LineHi, <<" ">>, <<"/", "e", "x", "i", "t">>, <<"/", "Q", "u", "i", "t">>,
      <<"/", "h", "e", "l", "p">> }

\* run() is called with a non-empty initial message.
InitInitial ==
    /\ InitApplication
    /\ backend \in Backends
    /\ initial_message \in InitialTexts

\* run() from its start until the first prompt is answered by end of input.
NextInitial ==
    \/ RunStart
    \/ KeyPress
    \/ trigger_cancel
    \/ BackendIO
    \/ _set_cancel
    \/ KeyHandler
    \/ _on_completion
    \/ BackendStep
    \/ ListenerStep
    \/ AfterWait
    \/ AfterCancelAwait
    \/ AfterCleanup
    \/ PromptEOF

SpecInitial == InitInitial /\ [][NextInitial]_vars

\* A message and its images argument, handed to the functions of images.py.
InitImages ==
    /\ InitRegistry
    /\ pc = "start"
    /\ turns = <<>>
    /\ ready = <<>>
    /\ image_buffer = {}
    /\ image_counter = 0
    /\ session = [inputs |-> 0, ended_by |-> "none", dispatch |-> NoDispatch,
                  carried |-> FALSE]
    /\ backend = [cancel |-> FALSE, kwargs |-> TRUE]
    /\ initial_message = NoMessage
    /\ text \in TextInputs
    /\ images \in ImagesInputs
    /\ parsed = NoParse
    /\ image_data = <<>>
    /\ prompt_buffer = <<>>
    /\ issued = <<>>
    /\ clip = NoClip
    /\ input_stream = <<>>
    /\ consumed = 0
    /\ buffer = <<>>
    /\ delivered = <<>>
    /\ success = TRUE
    /\ hpc = "none"

SpecImages == InitImages /\ [][NextImages]_vars

\* A session at its prompt, whose user pastes, clears and sends.
SpecAttach == Init /\ [][NextAttach]_vars

\* run_headless_mode(backend, initial_message, input_stream) is called.
InitHeadless ==
    /\ InitRegistry
    /\ pc = "start"
    /\ turns = <<>>
    /\ ready = <<>>
    /\ image_buffer = {}
    /\ image_counter = 0
    /\ session = [inputs |-> 0, ended_by |-> "none", dispatch |-> NoDispatch,
                  carried |-> FALSE]
    /\ backend = [cancel |-> FALSE, kwargs |-> TRUE]
    /\ text = <<>>
    /\ images = NoImages
    /\ parsed = NoParse
    /\ image_data = <<>>
    /\ prompt_buffer = <<>>
    /\ issued = <<>>
    /\ clip = NoClip
    /\ initial_message \in HeadlessInitial
    /\ input_stream \in StreamsOf(MaxLines)
    /\ consumed = 0
    /\ buffer = <<>>
    /\ delivered = <<>>
    /\ success = TRUE
    /\ hpc = "initial"

SpecHeadless == InitHeadless /\ [][NextHeadless]_vars

\* ------------------------------------------------------------------------
\* Registry properties
\* ------------------------------------------------------------------------
\* A step that is a call of register_action.
IsRegisterStep == regCalls' = regCalls + 1 /\ regLast'.op = "register_action"

\* C1: a register_action whose action collides on its name, its command or
\* any of its chords fails with ActionValidationError and leaves the name
\* table, the command table and the key-chord table exactly as they were.
C1_CollisionLeavesTablesUnchanged ==
    [][(IsRegisterStep /\ regLast'.conflict # "none")
        => /\ regLast'.result = "ActionValidationError"
           /\ NameTable' = NameTable
           /\ command_map' = command_map
           /\ key_map' = key_map]_vars

\* C2: the command table and the key-chord table are exactly the inverse
\* index of the name table: every registered action is found under its
\* name, its command and each of its chords, and the tables hold nothing
\* else.
C2_TablesAreInverseIndex ==
    /\ \A n \in DOMAIN actions :
          LET a == get_action(n)
          IN  /\ a.name = n
              /\ a.command # NoCommand => get_action_by_command(a.command) = a
              /\ \A i \in 1..Len(a.keys) : get_action_by_keys(a.keys[i]) = a
    /\ \A c \in DOMAIN command_map :
          /\ command_map[c] \in DOMAIN actions
          /\ get_action(command_map[c]).command = c
    /\ \A k \in DOMAIN key_map :
          /\ key_map[k] \in DOMAIN actions
          /\ \E i \in 1..Len(get_action(key_map[k]).keys) :
                get_action(key_map[k]).keys[i] = k

\* C3: no registry call changes the name, command, key chords or handler of
\* an action that is already in the registry.
C3_RegisteredActionImmutable ==
    [][\A n \in DOMAIN actions :
          LET o == actions[n]
          IN  /\ heap'[o].name = heap[o].name
              /\ heap'[o].command = heap[o].command
              /\ heap'[o].keys = heap[o].keys
              /\ heap'[o].handler = heap[o].handler]_vars

\* ------------------------------------------------------------------------
\* Session-loop properties
\* ------------------------------------------------------------------------
Turns == 1..Len(turns)

\* C4: at most one backend operation is unresolved at any time, and while
\* the loop waits for input no backend operation is unresolved and every
\* turn's teardown has finished.
C4_TurnsStrictlySequential ==
    /\ Cardinality({t \in Turns : BackendUnresolved(turns[t])}) <= 1
    /\ pc = "prompt" =>
          \A t \in Turns : ~BackendUnresolved(turns[t]) /\ turns[t].ended

\* C5 (as stated): when the slot and the backend operation are both
\* resolved as the wait returns, the coordinator takes the cancel path,
\* prints the cancellation notice once and requests the backend task to
\* cancel.
C5_TieRequestsTaskCancel ==
    \A t \in Turns :
        (turns[t].tie /\ turns[t].ended) =>
            /\ turns[t].path = "cancel"
            /\ Count(turns[t].out, "cancelled") = 1
            /\ turns[t].creq = 1

\* C5 (amended): when the slot and the backend operation are both resolved
\* as the wait returns, the coordinator takes the cancel path: it prints
\* the cancellation notice once and nothing about the backend's result,
\* calls the backend's cancel hook once if the backend has one, and sends
\* no cancellation request to the backend task, which is already resolved.
C5_TieTakesCancelPath ==
    \A t \in Turns :
        (turns[t].tie /\ turns[t].ended) =>
            /\ turns[t].path = "cancel"
            /\ turns[t].out = <<"thinking", "cancelled">>
            /\ turns[t].hook = (IF IsCancellable(backend) THEN 1 ELSE 0)
            /\ turns[t].creq = 0

\* A turn has ended whose wait returned with both resolved.
C5_TieReached ==
    \E t \in Turns :
        /\ turns[t].tie /\ turns[t].ended
        /\ turns[t].btask \in {"true", "false", "raised"}

\* A step in which turn t ends: _process_input returns to run().
TurnEnds(t) == turns'[t].ended /\ (t > Len(turns) \/ ~turns[t].ended)

\* C6: whichever way a content turn ends, the attachment buffer is empty
\* when it ends, and so before the next input is read.
C6_TurnEndsWithEmptyBuffer ==
    [][\A t \in 1..Len(turns') : TurnEnds(t) => image_buffer' = {}]_vars

\* A turn that was given an attachment has ended and the buffer is empty.
C6_TurnWithImagesEnded ==
    \E t \in Turns :
        turns[t].ended /\ turns[t].sent # {} /\ image_buffer = {}

\* C7: at most one cancel listener is active at any time, and none is
\* active while the loop waits for input.
C7_ListenerStoppedAfterTurn ==
    /\ Cardinality({t \in Turns : ListenerActive(turns[t])}) <= 1
    /\ pc = "prompt" => \A t \in Turns : ~ListenerActive(turns[t])

\* C8: the loop stops only when the prompt reports end of input or returns
\* a line that, stripped and lower-cased, is /exit or /quit.
C8_TerminatesOnlyOnEofOrExit ==
    [][(pc' \in {"terminated", "crashed"} /\ pc \notin {"terminated", "crashed"})
        => (pc = "prompt" /\ session'.ended_by \in {"eof", "exit"})]_vars

\* C9: a turn whose backend operation raised, and in which the coordinator
\* saw it raise, ends with the fault logged and an error message printed
\* to the user, and the loop goes on.
C9_BackendFaultLoggedAndReported ==
    \A t \in Turns :
        (turns[t].btask = "raised" /\ turns[t].path = "backend" /\ turns[t].ended) =>
            /\ turns[t].log # <<>>
            /\ Count(turns[t].out, "error") = 1
            /\ pc \notin {"terminated", "crashed"} \/ session.ended_by \in {"eof", "exit"}

\* C10: a turn that runs the protocol and whose slot was resolved two or
\* more times shows what one resolution shows: at most one notice, hook
\* call and cancellation request, exactly one notice and one request once
\* the cancel path has run against an unresolved backend operation, and no
\* error.
C10_SlotResolutionIdempotent ==
    \A t \in Turns :
        (turns[t].resolves >= 2 /\ turns[t].path \notin {"fault", "interrupt"}) =>
            /\ Count(turns[t].out, "cancelled") <= 1
            /\ turns[t].hook <= 1
            /\ turns[t].creq <= 1
            /\ (turns[t].ended /\ turns[t].path = "cancel" /\ ~turns[t].tie) =>
                  (Count(turns[t].out, "cancelled") = 1 /\ turns[t].creq = 1)
            /\ turns[t].listener # "raised_ki"

\* A turn a cancel signal reached: a chord was pressed or a tool called
\* trigger_cancel during it.
Signalled(r) == r.keys + r.triggers >= 1

\* The state a turn starts in is fresh: slot unresolved, listener new.
FreshStart(n) ==
    /\ ~n.slot /\ n.resolves = 0 /\ n.keys = 0 /\ n.triggers = 0
    /\ n.listener = "created" /\ ~n.lcancel
    /\ n.hook = 0 /\ n.creq = 0

\* C11: a cancel signal that reaches a turn whose backend operation has
\* resolved and won the race changes nothing: the turn prints no
\* cancellation notice, calls no cancel hook, requests no task
\* cancellation and nothing crashes; the turn ends with the buffer empty
\* and with its listener stopped, and the content turn started after it
\* begins with an unresolved slot and a new listener.
C11_LateCancelIsNoOp ==
    /\ [](\A t \in Turns :
            (turns[t].path = "backend" /\ Signalled(turns[t])) =>
                /\ Count(turns[t].out, "cancelled") = 0
                /\ turns[t].hook = 0
                /\ turns[t].creq = 0
                /\ turns[t].listener # "raised_ki"
                /\ turns[t].ended => ~ListenerActive(turns[t]))
    /\ [][\A t \in 1..Len(turns') :
            /\ (TurnEnds(t) /\ turns'[t].path = "backend") => image_buffer' = {}
            /\ (t = Len(turns) + 1 /\ t > 1 /\ turns[t - 1].path = "backend"
                  /\ Signalled(turns[t - 1]) /\ turns'[t].path = "none") =>
                    FreshStart(turns'[t])]_vars

\* A turn the backend won has ended, its slot resolved by a late signal.
C11_LateSignalAbsorbed ==
    \E t \in Turns :
        /\ turns[t].path = "backend" /\ turns[t].ended /\ turns[t].slot
        /\ Signalled(turns[t]) /\ pc = "prompt"

\* The transition the precedence rule prescribes for a line: a sentinel
\* ends the session; a blank line changes nothing; a line that starts with
\* the command marker is dispatched once and starts no turn; any other
\* line starts one content turn and dispatches nothing.
Prescribed(line) ==
    LET folded == Lower(Strip(line))
        sameTurns == Len(turns') = Len(turns)
    IN  IF folded = CmdExit \/ folded = CmdQuit
        THEN pc' = "terminated" /\ session'.ended_by = "exit" /\ sameTurns
             /\ session'.dispatch = NoDispatch
        ELSE IF Strip(line) = <<>>
        THEN pc' = "prompt" /\ ready' = ready /\ sameTurns
             /\ session'.dispatch = NoDispatch
        ELSE IF Head(Strip(line)) = "/"
        THEN pc' = "cmd_yield" /\ sameTurns
             /\ session'.dispatch = handle_command(Strip(line))
             /\ session'.dispatch # NoDispatch
        ELSE /\ Len(turns') = Len(turns) + 1
             /\ session'.dispatch = NoDispatch
             /\ pc' # "terminated"

\* C12: every line read at the prompt is counted once and causes the one
\* transition the precedence rule prescribes: sentinel, then blank, then
\* command, then content.
C12_InputPrecedence ==
    [][\A line \in InputLines :
          PromptLineOf(line) =>
              (session'.inputs = session.inputs + 1 /\ Prescribed(line))]_vars

\* A content line and then a command line have been read: one turn, one
\* dispatch of a handler.
C12_ContentThenCommand ==
    /\ pc = "cmd_yield" /\ session.inputs = 2
    /\ session.dispatch.invoked # <<>>
    /\ Len(turns) = 1 /\ ~turns[1].initial

\* C13: when the loop first waits for input, an initial message has had
\* exactly one content cycle, complete: the indicator printed, the backend
\* operation run and resolved, the listener stopped; without an initial
\* message no turn has been started and nothing was handed to the backend.
C13_InitialMessageCycleFirst ==
    (pc = "prompt" /\ session.inputs = 0) =>
        IF initial_message # NoMessage
        THEN /\ Len(turns) = 1
             /\ turns[1].initial /\ turns[1].ended
             /\ Count(turns[1].out, "thinking") = 1
             /\ BackendDone(turns[1])
             /\ ~ListenerActive(turns[1])
        ELSE turns = <<>>

\* C19: with a backend whose handle_input takes the text and the optional
\* attachments and nothing else, every content turn starts the backend
\* operation: no turn ends on a fault of the call itself, and a true
\* result ends the turn with nothing printed after the indicator and
\* nothing logged.
C19_RequiredCapabilitySuffices ==
    ~backend.kwargs =>
        \A t \in Turns :
            /\ turns[t].path # "fault"
            /\ (turns[t].path = "backend" /\ turns[t].btask = "true") =>
                  (turns[t].out = <<"thinking">> /\ turns[t].log = <<>>)

\* What a turn showed and ran, in order, without its log records.
IsVisible(e) == e # "log"
Visible(r) == SelectSeq(r.events, IsVisible)

\* C14: in every content turn the processing indicator comes first: it is
\* printed before the backend operation runs its first step and before a
\* cancellation notice or a failure message.
C14_IndicatorFirst ==
    \A t \in Turns :
        Visible(turns[t]) # <<>> => Head(Visible(turns[t])) = "indicator"

\* Every a in seq comes before every b in seq.
Before(seq, a, b) ==
    \A i, j \in 1..Len(seq) : (seq[i] = a /\ seq[j] = b) => i < j

HookRaised(r) == Count(r.log, "Error signaling cancellation to backend") >= 1

\* C16: a turn in which the backend's cancel hook raised goes on as a
\* cancelled turn does: the error is logged and the session does not end
\* with an error, the backend task is requested to cancel (unless it had
\* already resolved) and its end awaited, and the turn ends with the task
\* resolved and the listener stopped before input is read again.
C16_HookErrorContained ==
    \A t \in Turns :
        HookRaised(turns[t]) =>
            /\ turns[t].path = "cancel"
            /\ Count(turns[t].out, "cancelled") = 1
            /\ ~turns[t].tie => turns[t].creq = 1
            /\ pc # "crashed"
            /\ turns[t].ended =>
                  (BackendDone(turns[t]) /\ ~ListenerActive(turns[t]) /\ pc = "prompt")

\* C17: a turn in which the coordinator found the slot resolved and the
\* backend operation unresolved requests the task's cancellation once and
\* waits for the task; the session does not end with an error, a task
\* that ends cancelled is reported neither as a failure nor as an error,
\* and the turn ends only with the task resolved and the listener
\* stopped, the loop waiting for input.
C17_CancelledOutcomeExpected ==
    \A t \in Turns :
        (turns[t].path = "cancel" /\ ~turns[t].tie) =>
            /\ turns[t].creq = 1
            /\ BackendUnresolved(turns[t]) => (pc = "cancel_await" /\ ~turns[t].ended)
            /\ pc # "crashed"
            /\ turns[t].btask = "cancelled" =>
                  /\ Count(turns[t].out, "failed") = 0
                  /\ Count(turns[t].out, "error") = 0
                  /\ Count(turns[t].log, "Error during input processing") = 0
                  /\ Count(turns[t].log, "Backend task raised exception") = 0
            /\ turns[t].ended =>
                  (BackendDone(turns[t]) /\ ~ListenerActive(turns[t]) /\ pc = "prompt")

\* C18: on the backend-wins path a false result prints "Operation failed."
\* once after the indicator and a true result prints nothing after it;
\* neither is logged as an error, the session does not end with an error,
\* and when the turn ends the loop waits for input.
C18_ResultReporting ==
    /\ [](\A t \in Turns :
            (turns[t].path = "backend" /\ turns[t].btask \in {"true", "false"}) =>
                /\ turns[t].btask = "false" => turns[t].out = <<"thinking", "failed">>
                /\ turns[t].btask = "true" => turns[t].out = <<"thinking">>
                /\ turns[t].log = <<>>
                /\ pc # "crashed")
    /\ [][\A t \in 1..Len(turns') :
            (TurnEnds(t) /\ turns'[t].path = "backend") => pc' = "prompt"]_vars

\* A turn whose operation returned false has ended with the message.
C18_FailureReported ==
    \E t \in Turns :
        /\ turns[t].path = "backend" /\ turns[t].btask = "false"
        /\ turns[t].ended /\ pc = "prompt"
        /\ turns[t].out = <<"thinking", "failed">>

\* C20 (as stated): an attachment is gone at the end of the first pass of
\* the loop after it was added, whatever that pass was: once a blank or
\* command pass has ended, no attachment is in the buffer, and none is
\* handed to the backend by a later turn.
C20_NeverCarriedOver ==
    session.carried =>
        /\ image_buffer = {}
        /\ \A t \in Turns : turns[t].sent = {}

\* C20 (amended): the buffer lives until the next content turn.  A blank
\* or command pass leaves it as it is; a content turn hands the whole
\* buffer to the backend call; the buffer is empty when a content turn
\* ends, so nothing is handed to a second content turn.
C20_ClearedByNextContentTurn ==
    [][/\ \A line \in InputLines :
            (PromptLineOf(line) /\ Len(turns') = Len(turns)) =>
                image_buffer' = image_buffer
       /\ (pc = "cmd_yield" /\ pc' = "prompt") => image_buffer' = image_buffer
       /\ \A t \in 1..Len(turns') :
            /\ t > Len(turns) => turns'[t].sent = image_buffer
            /\ TurnEnds(t) => image_buffer' = {}]_vars

\* An attachment was carried over a blank or command pass and handed to
\* the content turn after it, which has ended with the buffer empty.
C20_CarriedThenSent ==
    \E t \in Turns :
        /\ session.carried /\ turns[t].sent # {}
        /\ turns[t].ended /\ image_buffer = {}

\* The last registry call was a dispatch of this kind.
Dispatched(op) == regLast.op = op

HandlerRaised == regLast.invoked # <<>> /\ HandlerRaises(regLast.invoked[1].handler)

\* C22: when the handler raises, execute_action raises
\* ActionExecutionError to its caller; a dispatch through handle_command,
\* handle_shortcut or a chord bound by the session lets no exception out
\* and reports the error to the user.
C22_HandlerErrorReported ==
    /\ (Dispatched("execute_action") /\ HandlerRaised) =>
            regLast.result = "ActionExecutionError"
    /\ ((Dispatched("handle_command") \/ Dispatched("handle_shortcut")
          \/ Dispatched("session_shortcut")) /\ HandlerRaised) =>
            (regLast.result = "ok" /\ regLast.printed # <<>>)

\* C23: "a x y" and "/a x  y", with or without surrounding blanks, are
\* the command /a with the arguments x and y: when /a is bound to an
\* enabled action with a handler, that handler is invoked exactly once,
\* with a context whose trigger is "command" and whose args are <<x, y>>
\* in order.
C23_CommandTokens ==
    (Dispatched("handle_command") /\ regLast.line \in {LineAxy, LineAxyBare}) =>
        LET action == get_action_by_command(CmdA)
        IN  (action # NoAction /\ action.enabled /\ action.handler # None) =>
                /\ Len(regLast.invoked) = 1
                /\ regLast.invoked[1].handler = action.handler
                /\ regLast.invoked[1].context.triggered_by = "command"
                /\ regLast.invoked[1].context.args = << <<"x">>, <<"y">> >>

\* The last dispatch was handle_command on a line whose command is bound
\* to no action.
UnboundCommandDispatched ==
    /\ Dispatched("handle_command")
    /\ \/ regLast.line = LineNope
       \/ regLast.line \in {LineAxy, LineAxyBare} /\ CmdA \notin DOMAIN command_map

UnboundChordDispatched ==
    Dispatched("handle_shortcut") /\ regLast.chord \notin DOMAIN key_map

\* C25: handle_shortcut on a chord bound to no action invokes no handler,
\* prints nothing, raises nothing and leaves the registry unchanged.
C25_UnboundChordSilent ==
    /\ [](UnboundChordDispatched =>
            /\ regLast.invoked = <<>>
            /\ regLast.printed = <<>>
            /\ regLast.result = "ok")
    /\ [][UnboundChordDispatched' =>
            UNCHANGED <<heap, actions, command_map, key_map, _backend>>]_vars

\* F9, which no action binds, was dispatched after a registration.
C25_UnboundChordPressed ==
    /\ UnboundChordDispatched
    /\ regLast.chord = "F9"
    /\ regCalls > 0

\* C26: a fresh registry holds help (/help and F1), list-shortcuts
\* (/shortcuts only), exit (/exit only) and quit (/quit only); and in
\* every state a dispatch of exit or quit, by name or by command, invokes
\* no handler, prints nothing and raises nothing.
C26_ExitQuitNeverInvoked ==
    /\ regLast.op = "init" =>
            /\ DOMAIN actions = {"show_help", "list_shortcuts", "exit_repl", "quit_repl"}
            /\ command_map = (CmdHelp :> "show_help") @@ (CmdShortcuts :> "list_shortcuts")
                                @@ (CmdExit :> "exit_repl") @@ (CmdQuit :> "quit_repl")
            /\ key_map = ("F1" :> "show_help")
            /\ get_action("exit_repl").handler = None
            /\ get_action("quit_repl").handler = None
    /\ (Dispatched("execute_action") /\ regLast.name \in {"exit_repl", "quit_repl"}) =>
            (regLast.invoked = <<>> /\ regLast.result = "ok")
    /\ (Dispatched("handle_command")
          /\ regLast.line \in {CmdExit, <<"/", "q", "u", "i", "t", " ", "x">>}) =>
            (regLast.invoked = <<>> /\ regLast.printed = <<>> /\ regLast.result = "ok")

\* C27: assigning a value without handle_input to registry.backend raises
\* TypeError and keeps the binding (or the unbound state) as it was;
\* assigning a backend replaces the binding; the context built by every
\* later dispatch carries the backend bound at that time.
C27_BackendSetterContract ==
    /\ [][regLast'.op = "set_backend" =>
            IF regLast'.value \in {"backend_1", "backend_2"}
            THEN regLast'.result = "ok" /\ _backend' = regLast'.value
            ELSE regLast'.result = "TypeError" /\ _backend' = _backend]_vars
    /\ [](_backend \in {NoBackend, "backend_1", "backend_2"})
    /\ []((regLast.op \in {"handle_command", "handle_shortcut", "session_shortcut"}
            /\ regLast.invoked # <<>>) =>
                regLast.invoked[1].context.backend = _backend)

\* An assignment was refused while a backend was bound, and the binding
\* is still there.
C27_RefusedKeepsBinding ==
    /\ regLast.op = "set_backend"
    /\ regLast.value = "not_a_backend"
    /\ regLast.result = "TypeError"
    /\ _backend = "backend_2"

\* The list-shortcuts handler ran in the last dispatch.
ListingRan ==
    /\ regLast.op \in {"execute_action", "handle_command", "handle_shortcut",
                       "session_shortcut"}
    /\ regLast.invoked # <<>>
    /\ regLast.invoked[1].handler = "_list_shortcuts"

RECURSIVE Render(_)
\* The parts written out again: a reference as its placeholder, a text
\* part as its text.
Render(parts) ==
    IF parts = <<>> THEN <<>>
    ELSE (IF Head(parts).id # NoId
          THEN <<"{", "{", "i", "m", "a", "g", "e", ":">> \o Head(parts).id \o <<"}", "}">>
          ELSE Head(parts).content)
         \o Render(Tail(parts))

\* C30: the parts of parse_image_references(text), written out in order
\* with every reference as {{image:id}}, are the text again; a reference
\* part has no text of its own; and the id set is the set of the ids of
\* the reference parts.
C30_ParseRoundTrip ==
    parsed.op = "parse_image_references" =>
        /\ Render(parsed.parts) = text
        /\ \A k \in 1..Len(parsed.parts) :
                parsed.parts[k].id # NoId => parsed.parts[k].content = <<>>
        /\ parsed.image_ids =
                {parsed.parts[k].id : k \in {j \in 1..Len(parsed.parts) :
                                                parsed.parts[j].id # NoId}}

\* A parse that found a placeholder and left text after it, some of it
\* an unfinished placeholder.
C30_ReferenceThenLiteral ==
    /\ parsed.op = "parse_image_references"
    /\ Len(parsed.parts) = 2
    /\ parsed.parts[1].id = <<"b", "_">>
    /\ parsed.parts[2].id = NoId
    /\ parsed.parts[2].content = <<"{", "{", "i", "m", "a", "g", "e", ":", "-">>

\* A placeholder token with an id of n characters starts at offset i.
TokenAt(s, i, n) ==
    /\ n >= 1
    /\ i + 10 + n <= Len(s)
    /\ SubSeq(s, i + 1, i + 8) = <<"{", "{", "i", "m", "a", "g", "e", ":">>
    /\ \A j \in (i + 9)..(i + 8 + n) : s[j] \in {"i", "m", "a", "g", "e", "b", "x", "_"}
    /\ SubSeq(s, i + 9 + n, i + 10 + n) = <<"}", "}">>

\* The offsets where the tokens of a text start, and each token's id.
TokenStarts(s) == {i \in 0..Len(s) : \E n \in 1..Len(s) : TokenAt(s, i, n)}
TokenId(s, i) == LET n == CHOOSE n \in 1..Len(s) : TokenAt(s, i, n)
                 IN  SubSeq(s, i + 9, i + 8 + n)

\* The positions of a text that belong to no token, and those before
\* offset i.
Literal(s) ==
    {p \in 1..Len(s) :
        ~\E i \in TokenStarts(s) : i < p /\ p <= i + 10 + Len(TokenId(s, i))}
LiteralUpTo(s, i) == {p \in Literal(s) : p <= i}

\* The members of a set of numbers in ascending order, and the text at a
\* set of positions.
Ascending(S) ==
    [k \in 1..Cardinality(S) |-> CHOOSE p \in S : Cardinality({q \in S : q <= p}) = k]
TextAt(s, S) == [k \in 1..Cardinality(S) |-> s[Ascending(S)[k]]]

RECURSIVE Contents(_)
\* The text of the parts, joined.
Contents(y) == IF y = <<>> THEN <<>> ELSE Head(y).content \o Contents(Tail(y))

\* C29: iter_content_parts yields one part without text for every
\* placeholder token of the text, in the order of the tokens, with the
\* buffer's entry for the token's id, or None when the buffer has none;
\* the text parts carry no image; the text yielded before the part of a
\* token is the text before that token without its tokens, and the text
\* of all parts is the text without its tokens.
C29_IterContentParts ==
    parsed.op = "iter_content_parts" =>
        LET y == parsed.yielded
            refs == Ascending({k \in 1..Len(y) : y[k].content = <<>>})
            starts == Ascending(TokenStarts(text))
        IN  /\ Len(refs) = Len(starts)
            /\ \A m \in 1..Len(refs) :
                    LET id == TokenId(text, starts[m])
                    IN  /\ y[refs[m]].image =
                                IF images.given /\ id \in DOMAIN images.dict
                                THEN images.dict[id] ELSE "None"
                        /\ Contents(SubSeq(y, 1, refs[m] - 1)) =
                                TextAt(text, LiteralUpTo(text, starts[m]))
            /\ \A k \in 1..Len(y) : y[k].content # <<>> => y[k].image = "None"
            /\ Contents(y) = TextAt(text, Literal(text))

\* A text with two tokens and text between them: the first id is in the
\* buffer, the second is not.
C29_PresentAndAbsent ==
    /\ parsed.op = "iter_content_parts"
    /\ Len(parsed.yielded) = 3
    /\ parsed.yielded[1] = [content |-> <<>>, image |-> "data_a"]
    /\ parsed.yielded[2].content = <<"x", " ">>
    /\ parsed.yielded[3] = [content |-> <<>>, image |-> "None"]

\* The step is a run of the paste handler.
PasteRan == clip'.runs = clip.runs + 1

\* C31: a paste whose bytes detect_media_type does not recognize, which
\* it never does below 12 bytes, leaves the attachment buffer and the id
\* counter as they were and inserts no placeholder (at most the
\* clipboard's text); every entry of the buffer has a recognized media
\* type.
C31_UnrecognizedStoresNothing ==
    /\ [][(PasteRan /\ clip'.media_type = "None") =>
            /\ UNCHANGED <<image_buffer, image_data, image_counter, issued>>
            /\ \/ prompt_buffer' = prompt_buffer
               \/ /\ Len(prompt_buffer') = Len(prompt_buffer) + 1
                  /\ SubSeq(prompt_buffer', 1, Len(prompt_buffer)) = prompt_buffer
                  /\ prompt_buffer'[Len(prompt_buffer')].kind = "text"]_vars
    /\ [](Len(clip.bytes) < 12 => clip.media_type = "None")
    /\ [](\A i \in image_buffer :
            image_data[i].media_type \in
                {"image/png", "image/jpeg", "image/gif", "image/webp", "image/bmp"})

\* A PNG signature cut at 11 bytes was pasted after an image was stored:
\* the buffer still holds that one image only.
C31_ShortPngRejected ==
    /\ clip.runs = 2
    /\ clip.bytes = <<"x89", "P", "N", "G", "CR", "LF", "x1a", "LF", "x00", "x00", "x00">>
    /\ clip.context.repl
    /\ clip.media_type = "None"
    /\ image_buffer = {1}
    /\ Len(issued) = 1

\* The step reads a line of the stream; the line it reads, without its
\* line ending; the step is the flush at the end of the stream.
LineRead == hpc = "stream" /\ consumed' = consumed + 1
ReadingLine == RStripEol(input_stream[consumed + 1])
Flushed == hpc = "stream" /\ consumed' = consumed /\ hpc' = "returned"

\* The step delivers one message, this one.
Delivers(message) ==
    /\ Len(delivered') = Len(delivered) + 1
    /\ SubSeq(delivered', 1, Len(delivered)) = delivered
    /\ delivered'[Len(delivered')].message = message

\* C32 as stated: only the bare token ends a turn, every other line is
\* buffered, and the message is the buffered lines joined by newlines.
C32_ExactSentinel ==
    [][LineRead =>
        IF ReadingLine = <<"{", "{", "s", "e", "n", "d", "}", "}">>
        THEN buffer # <<>> => Delivers(Join(buffer))
        ELSE buffer' = Append(buffer, ReadingLine)]_vars

\* C32: a line that is the token {{send}} once the blanks around it are
\* removed ends the turn: the buffered lines, joined by newlines and
\* with the blanks at both ends removed, are delivered as one message
\* when that text is not empty, and the buffer starts empty again; any
\* other line is appended to the buffer without its line ending; the end
\* of the stream delivers what is buffered in the same way.
C32_SentinelUpToBlanks ==
    /\ [][LineRead =>
            IF Strip(ReadingLine) = <<"{", "{", "s", "e", "n", "d", "}", "}">>
            THEN /\ IF Strip(Join(buffer)) # <<>>
                    THEN Delivers(Strip(Join(buffer)))
                    ELSE delivered' = delivered
                 /\ hpc' = "stream" => buffer' = <<>>
            ELSE /\ buffer' = Append(buffer, ReadingLine)
                 /\ delivered' = delivered]_vars
    /\ [][Flushed =>
            IF Strip(Join(buffer)) # <<>>
            THEN Delivers(Strip(Join(buffer)))
            ELSE delivered' = delivered]_vars

\* A padded token ended a turn of two lines, delivered as "a", newline,
\* "b".
C32_PaddedTokenSends ==
    /\ consumed = 3
    /\ input_stream[3] = <<" ", "{", "{", "s", "e", "n", "d", "}", "}", " ", "\r", "\n">>
    /\ buffer = <<>>
    /\ Len(delivered) >= 1
    /\ delivered[Len(delivered)].message = <<"a", "\n", " ", "b">>

\* C33: run_headless_mode always returns, and it returns True exactly
\* when every call of the backend returned a true value and nothing
\* raised anywhere in the run; one false result or one exception makes
\* the result False.
C33_TrueIffAllSucceeded ==
    /\ hpc # "raised"
    /\ hpc \in {"returned", "interrupted"} =>
            (success <=> /\ \A k \in 1..Len(delivered) : delivered[k].outcome = "true"
                         /\ hpc = "returned")

RECURSIVE TurnsOf(_, _, _)
\* The turns of a sequence of lines: the messages of the turns a send
\* line has ended, empty ones left out, and the lines after the last
\* send line.
TurnsOf(lines, cur, done) ==
    IF lines = <<>> THEN [done |-> done, pending |-> cur]
    ELSE LET line == RStripEol(Head(lines))
             message == Strip(Join(cur))
         IN  IF Strip(line) = <<"{", "{", "s", "e", "n", "d", "}", "}">>
             THEN TurnsOf(Tail(lines), <<>>,
                          IF message # <<>> THEN Append(done, message) ELSE done)
             ELSE TurnsOf(Tail(lines), Append(cur, line), done)

\* The messages a run has to deliver for the lines it has read: the
\* initial message when given, the turns ended so far, and the turn the
\* end of the stream ends.
InitialPart == IF initial_message # <<>> THEN <<initial_message>> ELSE <<>>
EndedPart(n) == TurnsOf(SubSeq(input_stream, 1, n), <<>>, <<>>).done
LastPart(n) ==
    LET message == Strip(Join(TurnsOf(SubSeq(input_stream, 1, n), <<>>, <<>>).pending))
    IN  IF message # <<>> THEN <<message>> ELSE <<>>
Messages == [k \in 1..Len(delivered) |-> delivered[k].message]
Interrupted == delivered # <<>> /\ delivered[Len(delivered)].outcome = "interrupt"

\* C34 as stated: whatever happens to one message, a run that was able to
\* read its stream delivers the initial message and every non-empty turn
\* of the stream, in order, once each.
C34_EveryTurnDelivered ==
    (hpc = "returned" \/ (hpc = "interrupted" /\ Interrupted)) =>
        Messages = InitialPart \o EndedPart(Len(input_stream))
                               \o LastPart(Len(input_stream))

\* C34: the calls of the backend are the initial message when given,
\* then the non-empty turns of the lines read so far, in order and once
\* each, whatever the earlier calls returned or raised as Exception; a
\* run that reaches the end of its stream has delivered every non-empty
\* turn; a KeyboardInterrupt or a failing read ends the run, and what was
\* not delivered by then never is.
C34_DeliveredInOrder ==
    /\ \A k \in 1..(Len(delivered) - 1) : delivered[k].outcome # "interrupt"
    /\ hpc = "initial" => delivered = <<>>
    /\ hpc = "raised" => (Messages = InitialPart /\ Interrupted)
    /\ hpc = "stream" => (Messages = InitialPart \o EndedPart(consumed) /\ ~Interrupted)
    /\ hpc = "returned" =>
            /\ consumed = Len(input_stream)
            /\ ~Interrupted
            /\ Messages = InitialPart \o EndedPart(consumed) \o LastPart(consumed)
    /\ hpc = "interrupted" =>
            \/ Messages = InitialPart \o EndedPart(consumed)
            \/ /\ Interrupted
               /\ consumed = Len(input_stream)
               /\ Messages = InitialPart \o EndedPart(consumed) \o LastPart(consumed)

\* Three messages were delivered although the first raised and the second
\* returned a false value.
C34_FailuresDoNotStop ==
    /\ hpc = "returned"
    /\ Len(delivered) = 3
    /\ delivered[1].outcome = "raise"
    /\ delivered[2].outcome = "false"
    /\ delivered[3].outcome = "true"

\* C35: register_action checks the name, then the command, then the chords in
\* the order the action lists them, and the error it raises is the one of the
\* first check that fails: the name's when the name is taken, whatever else
\* collides; the command's when only the command and chords collide; and for
\* chords the first listed chord that is already bound.
C35_FirstFailingCheckReported ==
    [][(IsRegisterStep /\ regLast'.result = "ActionValidationError")
        => LET a == regLast'.action
               ks == get_keys_list(a)
               nameTaken == a.name \in DOMAIN actions
               commandTaken == a.command # NoCommand /\ a.command \in DOMAIN command_map
               boundAt == {i \in 1..Len(ks) : ks[i] \in DOMAIN key_map}
           IN  /\ nameTaken => regLast'.conflict = "name"
               /\ (~nameTaken /\ commandTaken) => regLast'.conflict = "command"
               /\ (~nameTaken /\ ~commandTaken)
                     => /\ regLast'.conflict = "key"
                        /\ boundAt # {}
                        /\ regLast'.key = ks[CHOOSE i \in boundAt :
                                                \A j \in boundAt : i <= j]]_vars

\* A registration whose name and command are both taken was refused, and the
\* refusal names the name.
C35_NameAndCommandCollide ==
    /\ regLast.op = "register_action"
    /\ regLast.result = "ActionValidationError"
    /\ regLast.conflict = "name"
    /\ regLast.action.name \in DOMAIN actions
    /\ regLast.action.command # NoCommand
    /\ regLast.action.command \in DOMAIN command_map

\* A registration whose command and second chord are both taken was refused,
\* and the refusal names the command.
C35_CommandAndChordCollide ==
    /\ regLast.op = "register_action"
    /\ regLast.result = "ActionValidationError"
    /\ regLast.conflict = "command"
    /\ \E i \in 1..Len(get_keys_list(regLast.action)) :
          get_keys_list(regLast.action)[i] \in DOMAIN key_map

\* A step in which turn t's cancel trigger is called.
TriggerCalled(t) ==
    /\ t \in DOMAIN turns /\ t \in DOMAIN turns'
    /\ turns'[t].triggers = turns[t].triggers + 1

\* A step in which the scheduler runs the _set_cancel callback of turn t.
SetCancelRuns(t) ==
    /\ ready # <<>>
    /\ Head(ready) = SetCancelHandle(t)
    /\ ready' \in {Tail(ready), Append(Tail(ready), OnCompletionHandle(t))}

\* C36: a call of the cancel trigger leaves every cancel slot as it is and
\* only puts the _set_cancel callback at the end of the scheduler's queue;
\* when the scheduler runs that callback the slot is resolved afterwards, and
\* the step changes the slot exactly when the slot was unresolved before it.
C36_TriggerOnlyPosts ==
    [][\A t \in 1..MaxTurns :
          /\ TriggerCalled(t)
                => /\ ready' = Append(ready, SetCancelHandle(t))
                   /\ Len(turns') = Len(turns)
                   /\ \A u \in DOMAIN turns :
                         /\ turns'[u].slot = turns[u].slot
                         /\ turns'[u].resolves = turns[u].resolves
          /\ SetCancelRuns(t)
                => /\ turns'[t].slot
                   /\ (turns'[t].slot # turns[t].slot) <=> ~turns[t].slot
                   /\ \A u \in DOMAIN turns \ {t} : turns'[u] = turns[u]]_vars

\* The trigger was called while the slot was unresolved, no chord was typed,
\* and the callback, run later by the scheduler, resolved the slot.
C36_CallbackResolvedSlot ==
    \E t \in DOMAIN turns :
        /\ turns[t].triggers = 1
        /\ turns[t].keys = 0
        /\ turns[t].resolves = 1
        /\ turns[t].slot
        /\ turns[t].path # "interrupt"

\* A turn in which cancel won: the coordinator took the cancel branch.
CancelWon(r) == r.path = "cancel"

\* C37: in a turn in which cancel won, the indicator and the cancellation
\* notice are all that is printed; an operation that had already returned
\* false gets no "Operation failed.", and the fault of one that had already
\* raised is neither printed nor logged.
C37_OutcomeDiscarded ==
    \A t \in DOMAIN turns :
        CancelWon(turns[t]) =>
            /\ turns[t].out = <<"thinking", "cancelled">>
            /\ (turns[t].tie /\ turns[t].btask = "false")
                  => Count(turns[t].out, "failed") = 0
            /\ (turns[t].tie /\ turns[t].btask = "raised")
                  => /\ Count(turns[t].out, "error") = 0
                     /\ \A i \in 1..Len(turns[t].log) :
                           turns[t].log[i] = "Error signaling cancellation to backend"

\* A step in which the scheduler runs a cancel handle of turn n: the
\* _set_cancel callback of its trigger or the handler of one of its chords.
CancelHandleRuns(n) ==
    /\ ready # <<>>
    /\ Head(ready).t = n
    /\ Head(ready).k \in {"set_cancel", "key"}
    /\ \E q \in {Tail(ready), Append(Tail(ready), ListenerHandle(n))} :
          ready' \in {q, Append(q, OnCompletionHandle(n))}

\* The turn in progress, or the last one run.
LatestTurn == turns[Len(turns)]

\* C38: every content turn starts with a cancel slot of its own, unresolved;
\* when a trigger or a chord handler of an earlier turn runs after that
\* turn's teardown, the step changes nothing of any other turn, and the turn
\* that follows, with no signal of its own and no interrupt, keeps its slot
\* unresolved, prints no cancellation notice, has its cancel hook not called
\* and its backend task not cancelled.
C38_NoLeakBetweenTurns ==
    /\ []((Len(turns) > 1 /\ LatestTurn.path # "interrupt")
              => /\ ~LatestTurn.slot
                 /\ Count(LatestTurn.out, "cancelled") = 0
                 /\ LatestTurn.hook = 0
                 /\ LatestTurn.creq = 0
                 /\ LatestTurn.resolves = 0)
    /\ [][/\ \A n \in 1..(Len(turns) - 1) :
              CancelHandleRuns(n)
                => /\ Len(turns') = Len(turns)
                   /\ \A m \in DOMAIN turns \ {n} : turns'[m] = turns[m]
          /\ Len(turns') = Len(turns) + 1
                => \/ ~turns'[Len(turns')].slot
                   \/ turns'[Len(turns')].path = "interrupt"]_vars

\* The second turn is waiting for its backend operation, which has started,
\* and meanwhile the trigger of the first turn was called and its callback
\* has resolved the first turn's slot.
C38_LateTriggerDuringNextTurn ==
    /\ Len(turns) = 2
    /\ pc = "proc_wait"
    /\ turns[2].btask = "suspended"
    /\ turns[1].triggers = 1
    /\ turns[1].resolves = 1
    /\ turns[1].slot

\* The second turn is waiting, and a chord handler of the first turn, whose
\* cancel application was left running, has resolved the first turn's slot.
C38_LateChordDuringNextTurn ==
    /\ Len(turns) = 2
    /\ pc = "proc_wait"
    /\ turns[2].btask = "suspended"
    /\ turns[1].keys = 1
    /\ turns[1].resolves = 1
    /\ turns[1].slot

\* C39: a non-empty initial message, whatever its text, gets one content
\* cycle and nothing else before the first input is read: it is handed to
\* the backend, no registry dispatch is made for it, the session does not
\* end on it, and when the loop first waits for input the cycle is complete.
C39_InitialMessageIsContent ==
    (pc # "start" /\ session.inputs = 0) =>
        /\ Len(turns) = 1
        /\ session.dispatch = NoDispatch
        /\ regLast.op = "init"
        /\ pc # "crashed"
        /\ pc = "terminated" => session.ended_by = "eof"
        /\ pc # "terminated" =>
              /\ turns[1].initial
              /\ turns[1].btask # "none"
        /\ pc = "prompt" =>
              /\ turns[1].ended
              /\ Count(turns[1].out, "thinking") = 1
              /\ BackendDone(turns[1])

\* What an id resolves to in the attachment buffer: the ImageData held under
\* it, or nothing.
Resolves(id) == IF id \in image_buffer THEN {image_data[id]} ELSE {}

\* C40: the ids add_image has returned are pairwise distinct, clears of the
\* buffer included, every id in the buffer is one that was issued, and an
\* issued id resolves to the attachment it was issued for or to nothing.
C40_IdsNeverReused ==
    /\ \A i, j \in DOMAIN issued : i # j => issued[i].id # issued[j].id
    /\ \A id \in image_buffer : \E k \in DOMAIN issued : issued[k].id = id
    /\ \A k \in DOMAIN issued : Resolves(issued[k].id) \subseteq {issued[k].entry}

\* Two different images were attached with a clear of the buffer between
\* them: the first id resolves to nothing, the second to the second image.
C40_IssuedAcrossClear ==
    /\ Len(issued) = 2
    /\ issued[1].entry # issued[2].entry
    /\ Resolves(issued[1].id) = {}
    /\ Resolves(issued[2].id) = {issued[2].entry}
====
